---------------------------- MODULE Spec2Model ----------------------------
(***************************************************************************)
(* RIPEMD-160 circuit gadget (ripemd160-circuit) and its reference hash.   *)
(*                                                                         *)
(* Representation.  TLC integers are 32-bit signed, so a u32 or u64 of the *)
(* program is modelled as its little-endian bit array (a sequence of 0/1,  *)
(* index 1 = bit 0), which is also how the circuit code carries every cell *)
(* value ([bool; N], Bits<N>).  u8/u16 values, tags, carries, shifts and   *)
(* row numbers are TLA+ integers.  Only witness VALUES are modelled, a     *)
(* cell is its value.                                                      *)
(***************************************************************************)
EXTENDS Integers, Naturals, Sequences, FiniteSets, TLC

(***************************************************************************)
(* table16/util.rs (not part of the sources at hand): bit utilities.       *)
(***************************************************************************)

\* An array value, evaluated once: a function expression by itself is
\* re-evaluated at every application.
array(f) == f \o <<>>

\* i2lebsp::<N>(v): the N little-endian bits of an integer v < 2^31.
i2lebsp(n, v) == array([i \in 1..n |-> (v \div (2 ^ (i - 1))) % 2])

\* lebs2ip(bits): the integer of a little-endian bit array (value < 2^31),
\* summed by halves of the index range to keep the evaluation shallow.
RECURSIVE lebs2ip_range(_, _, _)
lebs2ip_range(bits, first, last) ==
    IF first > last THEN 0
    ELSE IF first = last THEN bits[first]
    ELSE LET mid == (first + last) \div 2
         IN  lebs2ip_range(bits, first, mid)
                + (2 ^ (mid + 1 - first)) * lebs2ip_range(bits, mid + 1, last)

lebs2ip(bits) == lebs2ip_range(bits, 1, Len(bits))

\* spread_bits: bit b of the input goes to bit 2b, zeros in between.
spread_bits(bits) ==
    array([i \in 1..(2 * Len(bits)) |-> IF i % 2 = 1 THEN bits[(i + 1) \div 2] ELSE 0])

\* even_bits / odd_bits: the bits at even / odd (0-based) positions.
even_bits(bits) == array([i \in 1..(Len(bits) \div 2) |-> bits[2 * i - 1]])

odd_bits(bits) == array([i \in 1..(Len(bits) \div 2) |-> bits[2 * i]])

\* negate_spread: complement of a spread value, in spread form (the even
\* positions are flipped, the odd ones stay zero).
negate_spread(arr) == array([i \in 1..Len(arr) |-> IF i % 2 = 1 THEN 1 - arr[i] ELSE arr[i]])

\* Wrapping addition of two equally long bit arrays (u32 + u32, u64 + u64),
\* 16 bits at a time from limb k on.
RECURSIVE add_bits_from(_, _, _, _)
add_bits_from(x, y, k, carry) ==
    IF 16 * k >= Len(x) THEN <<>>
    ELSE LET limb == lebs2ip_range(x, 16 * k + 1, 16 * k + 16)
                        + lebs2ip_range(y, 16 * k + 1, 16 * k + 16) + carry
         IN  i2lebsp(16, limb % 65536) \o add_bits_from(x, y, k + 1, limb \div 65536)

add_bits(x, y) == add_bits_from(x, y, 0, 0)

\* Bitwise operators of the machine on equally long bit arrays.
bit_xor(x, y) == array([i \in 1..Len(x) |-> (x[i] + y[i]) % 2])

bit_and(x, y) == array([i \in 1..Len(x) |-> x[i] * y[i]])

bit_or(x, y) == array([i \in 1..Len(x) |-> IF x[i] + y[i] > 0 THEN 1 ELSE 0])

bit_not(x) == array([i \in 1..Len(x) |-> 1 - x[i]])

\* x << n and x >> n on a fixed-width word.  A shift by the width of the
\* word or more overflows: a build with overflow checks panics ("attempt to
\* shift left / right with overflow"), a build without them shifts by n
\* modulo the width; both outcomes are given, by build.
shl(x, n) ==
    IF n < Len(x)
    THEN array([i \in 1..Len(x) |-> IF i > n THEN x[i - n] ELSE 0])
    ELSE [debug   |-> "panic",
          release |-> array([i \in 1..Len(x) |->
                            IF i > (n % Len(x)) THEN x[i - (n % Len(x))] ELSE 0])]

shr(x, n) ==
    IF n < Len(x)
    THEN array([i \in 1..Len(x) |-> IF i + n <= Len(x) THEN x[i + n] ELSE 0])
    ELSE [debug   |-> "panic",
          release |-> array([i \in 1..Len(x) |->
                            IF i + (n % Len(x)) <= Len(x) THEN x[i + (n % Len(x))] ELSE 0])]

\* The u32 whose halves are the u16 integers lo and hi: lo + 2^16 * hi.
u32_of_halves(lo, hi) == i2lebsp(16, lo) \o i2lebsp(16, hi)

RECURSIVE sum_field(_, _, _)
sum_field(words, k, i) ==
    IF i > Len(words) THEN 0 ELSE words[i][k] + sum_field(words, k, i + 1)

\* sum_with_carry(words): words are (lo, hi) u16 pairs; the integer sum
\* sum(lo) + 2^16 * sum(hi), returned as its low 32 bits and the overflow
\* count sum >> 32.  The integer is kept in two 16-bit limbs.
sum_with_carry(words) ==
    LET sum_lo == sum_field(words, 1, 1)
        sum_hi == sum_field(words, 2, 1)
        upper  == sum_hi + (sum_lo \div 65536)
    IN  [sum   |-> u32_of_halves(sum_lo % 65536, upper % 65536),
         carry |-> upper \div 65536]

(***************************************************************************)
(* constants.rs (not part of the sources at hand): the RIPEMD-160 tables.  *)
(* Tables are 0-based in the program and 1-based here: T[i] is T[i + 1].   *)
(***************************************************************************)
BLOCK_SIZE == 16

BLOCK_SIZE_BYTES == 64

DIGEST_SIZE == 5

DIGEST_SIZE_BYTES == 20

ROUNDS == 80

ROUND_PHASE_SIZE == 16

INITIAL_VALUES ==
    << u32_of_halves(8961, 26437), u32_of_halves(43913, 61389),
       u32_of_halves(56574, 39098), u32_of_halves(21622, 4146),
       u32_of_halves(57840, 50130) >>

ROUND_CONSTANTS_LEFT ==
    << u32_of_halves(0, 0), u32_of_halves(31129, 23170),
       u32_of_halves(60321, 28377), u32_of_halves(48348, 36635),
       u32_of_halves(64846, 43347) >>

ROUND_CONSTANTS_RIGHT ==
    << u32_of_halves(35814, 20642), u32_of_halves(53540, 23629),
       u32_of_halves(16115, 28016), u32_of_halves(30441, 31341),
       u32_of_halves(0, 0) >>

MSG_SEL_IDX_LEFT ==
    << 0, 1, 2, 3, 4, 5, 6, 7, 8, 9, 10, 11, 12, 13, 14, 15,
       7, 4, 13, 1, 10, 6, 15, 3, 12, 0, 9, 5, 2, 14, 11, 8,
       3, 10, 14, 4, 9, 15, 8, 1, 2, 7, 0, 6, 13, 11, 5, 12,
       1, 9, 11, 10, 0, 8, 12, 4, 13, 3, 7, 15, 14, 5, 6, 2,
       4, 0, 5, 9, 7, 12, 2, 10, 14, 1, 3, 8, 11, 6, 15, 13 >>

MSG_SEL_IDX_RIGHT ==
    << 5, 14, 7, 0, 9, 2, 11, 4, 13, 6, 15, 8, 1, 10, 3, 12,
       6, 11, 3, 7, 0, 13, 5, 10, 14, 15, 8, 12, 4, 9, 1, 2,
       15, 5, 1, 3, 7, 14, 6, 9, 11, 8, 12, 2, 10, 0, 4, 13,
       8, 6, 4, 1, 3, 11, 15, 0, 5, 12, 2, 13, 9, 7, 10, 14,
       12, 15, 10, 4, 1, 5, 8, 7, 6, 2, 13, 14, 0, 3, 9, 11 >>

ROL_AMOUNT_LEFT ==
    << 11, 14, 15, 12, 5, 8, 7, 9, 11, 13, 14, 15, 6, 7, 9, 8,
       7, 6, 8, 13, 11, 9, 7, 15, 7, 12, 15, 9, 11, 7, 13, 12,
       11, 13, 6, 7, 14, 9, 13, 15, 14, 8, 13, 6, 5, 12, 7, 5,
       11, 12, 14, 15, 14, 15, 9, 8, 9, 14, 5, 6, 8, 6, 5, 12,
       9, 15, 5, 11, 6, 8, 13, 12, 5, 12, 13, 14, 11, 8, 5, 6 >>

ROL_AMOUNT_RIGHT ==
    << 8, 9, 9, 11, 13, 15, 15, 5, 7, 7, 8, 11, 14, 14, 12, 6,
       9, 13, 15, 7, 12, 8, 9, 11, 7, 7, 12, 7, 6, 15, 13, 11,
       9, 7, 15, 11, 8, 6, 6, 14, 12, 13, 5, 14, 13, 13, 7, 5,
       15, 5, 8, 11, 14, 14, 6, 14, 6, 9, 12, 9, 12, 5, 15, 8,
       8, 5, 12, 9, 12, 5, 14, 6, 8, 13, 6, 5, 15, 13, 11, 11 >>

(***************************************************************************)
(* native.rs: the reference implementation.  A State is a record of five   *)
(* u32, a MessageBlock a 16-tuple of u32, a byte an integer 0..255.        *)
(***************************************************************************)

\* u32::overflowing_add(x, y).0
overflowing_add(x, y) == add_bits(x, y)

\* u32::from_le_bytes
u32_from_le_bytes(b0, b1, b2, b3) ==
    i2lebsp(8, b0) \o i2lebsp(8, b1) \o i2lebsp(8, b2) \o i2lebsp(8, b3)

\* u32::to_le_bytes
u32_to_le_bytes(w) == array([j \in 1..4 |-> lebs2ip(SubSeq(w, 8 * j - 7, 8 * j))])

\* usize/u64 to_le_bytes: n little-endian bytes of the integer v
RECURSIVE to_le_bytes(_, _)
to_le_bytes(v, n) ==
    IF n = 0 THEN <<>> ELSE <<v % 256>> \o to_le_bytes(v \div 256, n - 1)

f1(x, y, z) == bit_xor(bit_xor(x, y), z)

f2(x, y, z) == bit_or(bit_and(x, y), bit_and(bit_not(x), z))

f3(x, y, z) == bit_xor(bit_or(x, bit_not(y)), z)

f4(x, y, z) == bit_or(bit_and(x, z), bit_and(y, bit_not(z)))

f5(x, y, z) == bit_xor(x, bit_or(y, bit_not(z)))

\* rol: assert!(amount < 16) fails in every build for an amount of 16 or
\* more; for the amount 0 the right shift is by 32, which overflows (a
\* panic with overflow checks, the word itself without them).
rol(word, amount) ==
    IF ~(amount < 16) THEN "panic"
    ELSE IF amount = 0
    THEN [debug   |-> "panic",
          release |-> bit_or(shl(word, amount), shr(word, 32 - amount).release)]
    ELSE bit_or(shl(word, amount), shr(word, 32 - amount))

\* ROUND_FUNC_LEFT[i](x, y, z) and ROUND_FUNC_RIGHT[i](x, y, z), i 0-based;
\* the tables themselves are given by the names of their entries.
ROUND_FUNC_LEFT == << "f1", "f2", "f3", "f4", "f5" >>

ROUND_FUNC_RIGHT == << "f5", "f4", "f3", "f2", "f1" >>

apply_round_func(name, x, y, z) ==
    CASE name = "f1" -> f1(x, y, z)
      [] name = "f2" -> f2(x, y, z)
      [] name = "f3" -> f3(x, y, z)
      [] name = "f4" -> f4(x, y, z)
      [] OTHER       -> f5(x, y, z)

\* State::from([u32; 5]) and <[u8; 20]>::from(State)
State_from(ws) == [a |-> ws[1], b |-> ws[2], c |-> ws[3], d |-> ws[4], e |-> ws[5]]

\* State to bytes with each word written big-endian
State_to_bytes_big_endian(s) ==
    LET w(x) == u32_to_le_bytes(x)
        r(b) == << b[4], b[3], b[2], b[1] >>
    IN  r(w(s.a)) \o r(w(s.b)) \o r(w(s.c)) \o r(w(s.d)) \o r(w(s.e))

State_to_bytes(s) ==
    u32_to_le_bytes(s.a) \o u32_to_le_bytes(s.b) \o u32_to_le_bytes(s.c)
        \o u32_to_le_bytes(s.d) \o u32_to_le_bytes(s.e)

\* MessageBlock::from([u8; 64])
MessageBlock_from(s) ==
    array([i \in 1..BLOCK_SIZE |->
        u32_from_le_bytes(s[4 * i - 3], s[4 * i - 2], s[4 * i - 1], s[4 * i])])

zero_bytes(n) == array([i \in 1..n |-> 0])

PAD_BYTE == 128

\* pad_message_bytes with the gap taken before the 0x80 byte is pushed
pad_message_bytes_gap_before_push(msg_bytes) ==
    LET with_pad == msg_bytes \o <<PAD_BYTE>>
        gap      == BLOCK_SIZE_BYTES - (Len(msg_bytes) % BLOCK_SIZE_BYTES)
        zeros    == IF gap < 8 THEN zero_bytes(gap + 56) ELSE zero_bytes(gap - 8)
        padded_msg == with_pad \o zeros \o to_le_bytes(Len(msg_bytes) * 8, 8)
    IN  array([k \in 1..(Len(padded_msg) \div BLOCK_SIZE_BYTES) |->
            SubSeq(padded_msg, BLOCK_SIZE_BYTES * (k - 1) + 1, BLOCK_SIZE_BYTES * k)])

\* padded_msg with the short gap extended by the gap alone
padded_msg_short_gap_not_extended(msg_bytes) ==
    LET with_pad == msg_bytes \o <<PAD_BYTE>>
        gap      == BLOCK_SIZE_BYTES - (Len(with_pad) % BLOCK_SIZE_BYTES)
        zeros    == IF gap < 8 THEN zero_bytes(gap) ELSE zero_bytes(gap - 8)
    IN  with_pad \o zeros \o to_le_bytes(Len(msg_bytes) * 8, 8)

\* padded_msg of pad_message_bytes, as it is when the assertion on its
\* length is reached
padded_msg(msg_bytes) ==
    LET with_pad == msg_bytes \o <<PAD_BYTE>>
        gap      == BLOCK_SIZE_BYTES - (Len(with_pad) % BLOCK_SIZE_BYTES)
        zeros    == IF gap < 8 THEN zero_bytes(gap + 56) ELSE zero_bytes(gap - 8)
        msg_len_in_bits == Len(msg_bytes) * 8
    IN  with_pad \o zeros \o to_le_bytes(msg_len_in_bits, 8)

\* slice::chunks: the chunks of chunk_size elements in order, the last one
\* shorter when chunk_size does not divide the length
chunks(s, chunk_size) ==
    array([k \in 1..((Len(s) + chunk_size - 1) \div chunk_size) |->
        SubSeq(s, chunk_size * (k - 1) + 1,
               IF chunk_size * k < Len(s) THEN chunk_size * k ELSE Len(s))])

\* the blocks pad_message_bytes returns when its assertion holds
pad_message_bytes(msg_bytes) == chunks(padded_msg(msg_bytes), BLOCK_SIZE_BYTES)

left_step(round_idx, s, msg_block) ==
    LET f     == ROUND_FUNC_LEFT[(round_idx \div ROUND_PHASE_SIZE) + 1]
        m     == msg_block[MSG_SEL_IDX_LEFT[round_idx + 1] + 1]
        k     == ROUND_CONSTANTS_LEFT[(round_idx \div ROUND_PHASE_SIZE) + 1]
        shift == ROL_AMOUNT_LEFT[round_idx + 1]
        t     == overflowing_add(
                    rol(overflowing_add(overflowing_add(overflowing_add(
                            s.a, apply_round_func(f, s.b, s.c, s.d)), m), k), shift),
                    s.e)
    IN  [a |-> s.e, b |-> t, c |-> s.b, d |-> rol(s.c, 10), e |-> s.d]

right_step(round_idx, s, msg_block) ==
    LET f     == ROUND_FUNC_RIGHT[(round_idx \div ROUND_PHASE_SIZE) + 1]
        m     == msg_block[MSG_SEL_IDX_RIGHT[round_idx + 1] + 1]
        k     == ROUND_CONSTANTS_RIGHT[(round_idx \div ROUND_PHASE_SIZE) + 1]
        shift == ROL_AMOUNT_RIGHT[round_idx + 1]
        t     == overflowing_add(
                    rol(overflowing_add(overflowing_add(overflowing_add(
                            s.a, apply_round_func(f, s.b, s.c, s.d)), m), k), shift),
                    s.e)
    IN  [a |-> s.e, b |-> t, c |-> s.b, d |-> rol(s.c, 10), e |-> s.d]

combine_left_right_states(prev, l, r) ==
    [a |-> overflowing_add(overflowing_add(prev.b, l.c), r.d),
     b |-> overflowing_add(overflowing_add(prev.c, l.d), r.e),
     c |-> overflowing_add(overflowing_add(prev.d, l.e), r.a),
     d |-> overflowing_add(overflowing_add(prev.e, l.a), r.b),
     e |-> overflowing_add(overflowing_add(prev.a, l.b), r.c)]

\* TRUE once v is evaluated.  TLC evaluates operator arguments on demand;
\* a loop state is evaluated before the next iteration starts.
evaluated(v) == v = v

\* iterations first .. last - 1 of the loop of get_compress_state on the
\* pair lr = (left_state, right_state), split in halves to keep the
\* evaluation shallow
RECURSIVE compress_rounds(_, _, _, _)
compress_rounds(first, last, lr, msg_block) ==
    IF first >= last THEN lr
    ELSE IF last = first + 1
    THEN << left_step(first, lr[1], msg_block), right_step(first, lr[2], msg_block) >>
    ELSE LET mid  == (first + last) \div 2
             half == compress_rounds(first, mid, lr, msg_block)
         IN  IF evaluated(half) THEN compress_rounds(mid, last, half, msg_block) ELSE half

get_compress_state(s, msg_block) ==
    LET lr == compress_rounds(0, ROUNDS, << s, s >>, msg_block)
    IN  combine_left_right_states(s, lr[1], lr[2])

\* the loop of hash over msg_blocks[k..]
RECURSIVE hash_blocks(_, _, _)
hash_blocks(state, msg_blocks, k) ==
    IF k > Len(msg_blocks) THEN state
    ELSE LET next == get_compress_state(state, MessageBlock_from(msg_blocks[k]))
         IN  IF evaluated(next) THEN hash_blocks(next, msg_blocks, k + 1) ELSE next

hash(msg) ==
    LET msg_blocks == pad_message_bytes(msg)
        state == get_compress_state(State_from(INITIAL_VALUES),
                                    MessageBlock_from(msg_blocks[1]))
    IN  State_to_bytes(hash_blocks(state, msg_blocks, 2))

(***************************************************************************)
(* table16/spread_table.rs and table16.rs: lookup words and cell values.   *)
(* A cell of Bits<N> is its N-bit array; a SpreadVar is the record of the  *)
(* tag, dense and spread cells of one lookup row.                          *)
(***************************************************************************)
BITS_8 == 256

BITS_9 == 512

BITS_10 == 1024

BITS_11 == 2048

BITS_12 == 4096

BITS_13 == 8192

BITS_14 == 16384

BITS_15 == 32768

\* get_tag with each bound taken inclusive
get_tag_bounds_inclusive(input) ==
    IF input <= BITS_8 THEN 0
    ELSE IF input <= BITS_9 THEN 1
    ELSE IF input <= BITS_10 THEN 2
    ELSE IF input <= BITS_11 THEN 3
    ELSE IF input <= BITS_12 THEN 4
    ELSE IF input <= BITS_13 THEN 5
    ELSE IF input <= BITS_14 THEN 6
    ELSE IF input <= BITS_15 THEN 7
    ELSE 8

get_tag(input) ==
    IF input < BITS_8 THEN 0
    ELSE IF input < BITS_9 THEN 1
    ELSE IF input < BITS_10 THEN 2
    ELSE IF input < BITS_11 THEN 3
    ELSE IF input < BITS_12 THEN 4
    ELSE IF input < BITS_13 THEN 5
    ELSE IF input < BITS_14 THEN 6
    ELSE IF input < BITS_15 THEN 7
    ELSE 8

\* SpreadWord::new: assert!(DENSE <= 16) fails for a wider dense array
SpreadWord_new(dense) ==
    IF ~(Len(dense) <= 16) THEN "panic"
    ELSE [tag |-> get_tag(lebs2ip(dense)), dense |-> dense, spread |-> spread_bits(dense)]

\* SpreadVar::with_lookup: the word is placed in one row of the lookup columns
SpreadVar_with_lookup(word) ==
    [tag |-> word.tag, dense |-> word.dense, spread |-> word.spread]

\* The rows of the spread table are field elements; every value the
\* generator reaches is below 2^31 and is kept as an integer.
\* SpreadTableConfig::generate: the scan over 1..=(1 << 16) before its first
\* item, its state (tag, dense, spread) all zero
SpreadTableConfig_generate == [tag |-> 0, dense |-> 0, spread |-> 0, i |-> 1]

\* the spread recomputed on an even i: 1 << (2 * b) added for every b in
\* b..15 with bit b of i set
RECURSIVE generate_spread(_, _)
generate_spread(i, b) ==
    IF b >= 16 THEN 0
    ELSE (IF (i \div (2 ^ b)) % 2 # 0 THEN 2 ^ (2 * b) ELSE 0) + generate_spread(i, b + 1)

\* next on the scan with the spread incremented on every row
generate_next_spread_always_incremented(rows) ==
    IF rows.i > 2 ^ 16 THEN [item |-> <<>>, rows |-> rows]
    ELSE [item |-> << << rows.tag, rows.dense, rows.spread >> >>,
          rows |-> [tag    |-> IF rows.i \in {BITS_8, BITS_9, BITS_10, BITS_11,
                                              BITS_12, BITS_13, BITS_14, BITS_15}
                                   THEN rows.tag + 1 ELSE rows.tag,
                    dense  |-> rows.dense + 1,
                    spread |-> rows.spread + 1,
                    i      |-> rows.i + 1]]

\* Iterator::next on the scan of generate: None (no item) past the range,
\* else Some(res) with res the state on entry, the state then stepped with i
generate_next(rows) ==
    IF rows.i > 2 ^ 16 THEN [item |-> <<>>, rows |-> rows]
    ELSE [item |-> << << rows.tag, rows.dense, rows.spread >> >>,
          rows |-> [tag    |-> IF rows.i \in {BITS_8, BITS_9, BITS_10, BITS_11,
                                              BITS_12, BITS_13, BITS_14, BITS_15}
                                   THEN rows.tag + 1 ELSE rows.tag,
                    dense  |-> rows.dense + 1,
                    spread |-> IF rows.i % 2 = 0 THEN generate_spread(rows.i, 0)
                                                 ELSE rows.spread + 1,
                    i      |-> rows.i + 1]]

\* the lookup with the spread cell left out of the comparison
lookup_meets_without_spread(input_row, table_row) ==
    /\ input_row[1] = table_row[1]
    /\ input_row[2] = table_row[2]

\* the lookup of SpreadTableChip::configure: the cells (tag, dense, spread)
\* of an input row must equal the three cells of one table row
lookup_meets(input_row, table_row) ==
    /\ input_row[1] = table_row[1]
    /\ input_row[2] = table_row[2]
    /\ input_row[3] = table_row[3]

\* AssignedBits<16>::value_u16
value_u16(cell) == lebs2ip(cell)

\* AssignedBits<32>::value_u32, as a u32
value_u32(cell) ==
    u32_of_halves(lebs2ip(SubSeq(cell, 1, 16)), lebs2ip(SubSeq(cell, 17, 32)))

\* assign_word_and_halves with the high half taken from bit 15 up
assign_word_and_halves_hi_from_bit_15(word) ==
    LET w_lo_val    == lebs2ip(SubSeq(word, 1, 16))
        spread_w_lo == SpreadVar_with_lookup(SpreadWord_new(i2lebsp(16, w_lo_val)))
        w_hi_val    == lebs2ip(SubSeq(shr(word, 15), 1, 16))
        spread_w_hi == SpreadVar_with_lookup(SpreadWord_new(i2lebsp(16, w_hi_val)))
    IN  << word, << spread_w_lo, spread_w_hi >> >>

\* Table16Assignment::assign_word_and_halves: (word cell, (lo var, hi var))
assign_word_and_halves(word) ==
    LET w_lo_val    == lebs2ip(SubSeq(word, 1, 16))
        spread_w_lo == SpreadVar_with_lookup(SpreadWord_new(i2lebsp(16, w_lo_val)))
        w_hi_val    == lebs2ip(SubSeq(shr(word, 16), 1, 16))
        spread_w_hi == SpreadVar_with_lookup(SpreadWord_new(i2lebsp(16, w_hi_val)))
    IN  << word, << spread_w_lo, spread_w_hi >> >>

(***************************************************************************)
(* table16/compression.rs: round words.  A RoundWordDense is the pair      *)
(* (lo, hi) of 16-bit cells, a RoundWordSpread the pair of 32-bit spread   *)
(* cells, a RoundWord the record of both.                                  *)
(***************************************************************************)

\* RoundWordDense::value: lo as u32 + (1 << 16) * hi as u32
RoundWordDense_value(w) == u32_of_halves(value_u16(w[1]), value_u16(w[2]))

\* RoundWordSpread::value: lo as u64 + (1 << 32) * hi as u64
RoundWordSpread_value(w) == value_u32(w[1]) \o value_u32(w[2])

RoundWord_new(dense_halves, spread_halves) ==
    [dense_halves |-> dense_halves, spread_halves |-> spread_halves]

(***************************************************************************)
(* table16/compression/compression_util.rs: the assignment routines.  Each *)
(* returns a record: out is what the routine returns, the other fields are *)
(* the cells it places besides, under the names the code gives them.       *)
(* Placement is recorded relative to the row the routine is given: enabled *)
(* is the set of selectors it enables at that row, advice_rows the offsets *)
(* of the rows it assigns in the advice column a_3, lookup_rows the        *)
(* offsets of the rows it assigns in the lookup columns a_0, a_1, a_2,     *)
(* out_cells the (column, offset) of each cell it returns, and copied the  *)
(* argument cells it places with copy_advice.                              *)
(***************************************************************************)

\* the rows at an offset from the row of the caller
rows_from(offset, rows) == {offset + r : r \in rows}

assign_spread_outputs(r_0_even, r_0_odd, r_1_even, r_1_odd) ==
    LET v_0_even == SpreadVar_with_lookup(SpreadWord_new(r_0_even))
        v_0_odd  == SpreadVar_with_lookup(SpreadWord_new(r_0_odd))
        v_1_even == SpreadVar_with_lookup(SpreadWord_new(r_1_even))
        v_1_odd  == SpreadVar_with_lookup(SpreadWord_new(r_1_odd))
    IN  [out    |-> << << v_0_even.dense, v_1_even.dense >>,
                       << v_0_odd.dense, v_1_odd.dense >> >>,
         lookup |-> << v_0_even, v_0_odd, v_1_even, v_1_odd >>,
         lookup_rows |-> {0, 1, 2, 3}]

assign_spread_word(r_lo, r_hi) ==
    LET r_lo_var == SpreadVar_with_lookup(SpreadWord_new(r_lo))
        r_hi_var == SpreadVar_with_lookup(SpreadWord_new(r_hi))
    IN  [out    |-> << << r_lo_var.dense, r_hi_var.dense >>,
                       << r_lo_var.spread, r_hi_var.spread >> >>,
         lookup |-> << r_lo_var, r_hi_var >>,
         lookup_rows |-> {0, 1}]

assign_spread_dense_word(word) ==
    LET word_bits == RoundWordDense_value(word)
        r_lo_var  == SpreadVar_with_lookup(SpreadWord_new(SubSeq(word_bits, 1, 16)))
        r_hi_var  == SpreadVar_with_lookup(SpreadWord_new(SubSeq(word_bits, 17, 32)))
    IN  [out    |-> RoundWord_new(<< r_lo_var.dense, r_hi_var.dense >>,
                                  << r_lo_var.spread, r_hi_var.spread >>),
         lookup |-> << r_lo_var, r_hi_var >>,
         enabled     |-> {},
         advice_rows |-> {},
         lookup_rows |-> {0, 1},
         out_cells   |-> << << "a_1", 0 >>, << "a_1", 1 >> >>,
         copied      |-> {}]

assign_f1_outputs(r_0_even, r_0_odd, r_1_even, r_1_odd) ==
    assign_spread_outputs(r_0_even, r_0_odd, r_1_even, r_1_odd).out[1]

assign_ch_outputs(p_0_even, p_0_odd, p_1_even, p_1_odd) ==
    assign_spread_outputs(p_0_even, p_0_odd, p_1_even, p_1_odd).out[2]

assign_f1(spread_halves_b, spread_halves_c, spread_halves_d) ==
    LET m   == add_bits(add_bits(RoundWordSpread_value(spread_halves_b),
                                 RoundWordSpread_value(spread_halves_c)),
                        RoundWordSpread_value(spread_halves_d))
        r_0 == SubSeq(m, 1, 32)
        r_1 == SubSeq(m, 33, 64)
    IN  [out    |-> assign_f1_outputs(even_bits(r_0), odd_bits(r_0),
                                      even_bits(r_1), odd_bits(r_1)),
         lookup |-> assign_spread_outputs(even_bits(r_0), odd_bits(r_0),
                                          even_bits(r_1), odd_bits(r_1)).lookup,
         enabled     |-> {"s_f1"},
         advice_rows |-> {0, 1, 2, 3, 4, 5},
         lookup_rows |-> rows_from(0,
                            assign_spread_outputs(even_bits(r_0), odd_bits(r_0),
                                                  even_bits(r_1), odd_bits(r_1)).lookup_rows),
         out_cells   |-> << << "a_1", 0 >>, << "a_1", 2 >> >>,
         copied      |-> {"spread_b_lo", "spread_b_hi", "spread_c_lo", "spread_c_hi",
                          "spread_d_lo", "spread_d_hi"}]

\* assign_f2 with Q taken from x + z, x not negated
assign_f2_q_from_x(spread_halves_x, spread_halves_y, spread_halves_z) ==
    LET p   == add_bits(RoundWordSpread_value(spread_halves_x),
                        RoundWordSpread_value(spread_halves_y))
        p_0 == SubSeq(p, 1, 32)
        p_1 == SubSeq(p, 33, 64)
        p_odd_halves    == assign_ch_outputs(even_bits(p_0), odd_bits(p_0),
                                             even_bits(p_1), odd_bits(p_1))
        spread_neg_x_lo == negate_spread(spread_halves_x[1])
        spread_neg_x_hi == negate_spread(spread_halves_x[2])
        q   == add_bits(RoundWordSpread_value(spread_halves_x),
                        RoundWordSpread_value(spread_halves_z))
        q_0 == SubSeq(q, 1, 32)
        q_1 == SubSeq(q, 33, 64)
        q_odd_halves    == assign_ch_outputs(even_bits(q_0), odd_bits(q_0),
                                             even_bits(q_1), odd_bits(q_1))
        sc  == sum_with_carry(
                    << << value_u16(p_odd_halves[1]), value_u16(p_odd_halves[2]) >>,
                       << value_u16(q_odd_halves[1]), value_u16(q_odd_halves[2]) >> >>)
        sum_lo == SubSeq(sc.sum, 1, 16)
        sum_hi == SubSeq(sc.sum, 17, 32)
    IN  [out          |-> << sum_lo, sum_hi >>,
         carry        |-> sc.carry,
         spread_neg_x |-> << spread_neg_x_lo, spread_neg_x_hi >>,
         lookup       |-> assign_spread_outputs(even_bits(p_0), odd_bits(p_0),
                                                even_bits(p_1), odd_bits(p_1)).lookup
                            \o assign_spread_outputs(even_bits(q_0), odd_bits(q_0),
                                                     even_bits(q_1), odd_bits(q_1)).lookup,
         enabled      |-> {"s_f2f4"},
         advice_rows  |-> {0, 1, 2, 3, 4, 5, 9, 10, 6, 7, 8},
         lookup_rows  |-> rows_from(0,
                             assign_spread_outputs(even_bits(p_0), odd_bits(p_0),
                                                   even_bits(p_1), odd_bits(p_1)).lookup_rows)
                          \cup rows_from(4,
                             assign_spread_outputs(even_bits(q_0), odd_bits(q_0),
                                                   even_bits(q_1), odd_bits(q_1)).lookup_rows),
         out_cells    |-> << << "a_3", 6 >>, << "a_3", 7 >> >>,
         copied       |-> {"spread_x_lo", "spread_x_hi", "spread_y_lo", "spread_y_hi",
                           "spread_z_lo", "spread_z_hi"}]

assign_f2(spread_halves_x, spread_halves_y, spread_halves_z) ==
    LET p   == add_bits(RoundWordSpread_value(spread_halves_x),
                        RoundWordSpread_value(spread_halves_y))
        p_0 == SubSeq(p, 1, 32)
        p_1 == SubSeq(p, 33, 64)
        p_odd_halves    == assign_ch_outputs(even_bits(p_0), odd_bits(p_0),
                                             even_bits(p_1), odd_bits(p_1))
        spread_neg_x_lo == negate_spread(spread_halves_x[1])
        spread_neg_x_hi == negate_spread(spread_halves_x[2])
        q   == add_bits(value_u32(spread_neg_x_lo) \o value_u32(spread_neg_x_hi),
                        RoundWordSpread_value(spread_halves_z))
        q_0 == SubSeq(q, 1, 32)
        q_1 == SubSeq(q, 33, 64)
        q_odd_halves    == assign_ch_outputs(even_bits(q_0), odd_bits(q_0),
                                             even_bits(q_1), odd_bits(q_1))
        sc  == sum_with_carry(
                    << << value_u16(p_odd_halves[1]), value_u16(p_odd_halves[2]) >>,
                       << value_u16(q_odd_halves[1]), value_u16(q_odd_halves[2]) >> >>)
        sum_lo == SubSeq(sc.sum, 1, 16)
        sum_hi == SubSeq(sc.sum, 17, 32)
    IN  [out          |-> << sum_lo, sum_hi >>,
         carry        |-> sc.carry,
         spread_neg_x |-> << spread_neg_x_lo, spread_neg_x_hi >>,
         lookup       |-> assign_spread_outputs(even_bits(p_0), odd_bits(p_0),
                                                even_bits(p_1), odd_bits(p_1)).lookup
                            \o assign_spread_outputs(even_bits(q_0), odd_bits(q_0),
                                                     even_bits(q_1), odd_bits(q_1)).lookup,
         enabled      |-> {"s_f2f4"},
         advice_rows  |-> {0, 1, 2, 3, 4, 5, 9, 10, 6, 7, 8},
         lookup_rows  |-> rows_from(0,
                             assign_spread_outputs(even_bits(p_0), odd_bits(p_0),
                                                   even_bits(p_1), odd_bits(p_1)).lookup_rows)
                          \cup rows_from(4,
                             assign_spread_outputs(even_bits(q_0), odd_bits(q_0),
                                                   even_bits(q_1), odd_bits(q_1)).lookup_rows),
         out_cells    |-> << << "a_3", 6 >>, << "a_3", 7 >> >>,
         copied       |-> {"spread_x_lo", "spread_x_hi", "spread_y_lo", "spread_y_hi",
                           "spread_z_lo", "spread_z_hi"}]

\* assign_f4 handing its operands to assign_f2 in the order it got them
assign_f4_operands_in_order(spread_halves_x, spread_halves_y, spread_halves_z) ==
    assign_f2(spread_halves_x, spread_halves_y, spread_halves_z)

assign_f4(spread_halves_x, spread_halves_y, spread_halves_z) ==
    assign_f2(spread_halves_z, spread_halves_x, spread_halves_y)

\* assign_f3 with the complement of y taken on every bit of its spread form
assign_f3_neg_y_flips_every_bit(spread_halves_x, spread_halves_y, spread_halves_z) ==
    LET spread_halves_neg_y ==
            << array([i \in 1..32 |-> 1 - spread_halves_y[1][i]]),
               array([i \in 1..32 |-> 1 - spread_halves_y[2][i]]) >>
        sum   == add_bits(RoundWordSpread_value(spread_halves_x),
                          RoundWordSpread_value(spread_halves_neg_y))
        sum_0 == SubSeq(sum, 1, 32)
        sum_1 == SubSeq(sum, 33, 64)
        or    == bit_or(RoundWordSpread_value(spread_halves_x),
                        RoundWordSpread_value(spread_halves_neg_y))
        or_lo == even_bits(SubSeq(or, 1, 32))
        or_hi == even_bits(SubSeq(or, 33, 64))
        or_not_xor   == add_bits(or, RoundWordSpread_value(spread_halves_z))
        or_not_xor_0 == SubSeq(or_not_xor, 1, 32)
        or_not_xor_1 == SubSeq(or_not_xor, 33, 64)
        r     == assign_spread_outputs(even_bits(or_not_xor_0), odd_bits(or_not_xor_0),
                                       even_bits(or_not_xor_1), odd_bits(or_not_xor_1))
    IN  [out          |-> r.out[1],
         spread_neg_y |-> spread_halves_neg_y,
         lookup       |-> assign_spread_outputs(even_bits(sum_0), odd_bits(sum_0),
                                                even_bits(sum_1), odd_bits(sum_1)).lookup
                            \o assign_spread_word(or_lo, or_hi).lookup
                            \o r.lookup,
         enabled      |-> {"s_f3f5"},
         advice_rows  |-> {2, 3, 6, 7, 4, 5, 0, 1},
         lookup_rows  |-> rows_from(0,
                             assign_spread_outputs(even_bits(sum_0), odd_bits(sum_0),
                                                   even_bits(sum_1), odd_bits(sum_1)).lookup_rows)
                          \cup rows_from(4, assign_spread_word(or_lo, or_hi).lookup_rows)
                          \cup rows_from(6, r.lookup_rows),
         out_cells    |-> << << "a_1", 6 >>, << "a_1", 8 >> >>,
         copied       |-> {"spread_x_lo", "spread_x_hi", "spread_y_lo", "spread_y_hi",
                           "spread_z_lo", "spread_z_hi"}]

assign_f3(spread_halves_x, spread_halves_y, spread_halves_z) ==
    LET spread_halves_neg_y ==
            << negate_spread(spread_halves_y[1]), negate_spread(spread_halves_y[2]) >>
        sum   == add_bits(RoundWordSpread_value(spread_halves_x),
                          RoundWordSpread_value(spread_halves_neg_y))
        sum_0 == SubSeq(sum, 1, 32)
        sum_1 == SubSeq(sum, 33, 64)
        or    == bit_or(RoundWordSpread_value(spread_halves_x),
                        RoundWordSpread_value(spread_halves_neg_y))
        or_lo == even_bits(SubSeq(or, 1, 32))
        or_hi == even_bits(SubSeq(or, 33, 64))
        or_not_xor   == add_bits(or, RoundWordSpread_value(spread_halves_z))
        or_not_xor_0 == SubSeq(or_not_xor, 1, 32)
        or_not_xor_1 == SubSeq(or_not_xor, 33, 64)
        r     == assign_spread_outputs(even_bits(or_not_xor_0), odd_bits(or_not_xor_0),
                                       even_bits(or_not_xor_1), odd_bits(or_not_xor_1))
    IN  [out          |-> r.out[1],
         spread_neg_y |-> spread_halves_neg_y,
         lookup       |-> assign_spread_outputs(even_bits(sum_0), odd_bits(sum_0),
                                                even_bits(sum_1), odd_bits(sum_1)).lookup
                            \o assign_spread_word(or_lo, or_hi).lookup
                            \o r.lookup,
         enabled      |-> {"s_f3f5"},
         advice_rows  |-> {2, 3, 6, 7, 4, 5, 0, 1},
         lookup_rows  |-> rows_from(0,
                             assign_spread_outputs(even_bits(sum_0), odd_bits(sum_0),
                                                   even_bits(sum_1), odd_bits(sum_1)).lookup_rows)
                          \cup rows_from(4, assign_spread_word(or_lo, or_hi).lookup_rows)
                          \cup rows_from(6, r.lookup_rows),
         out_cells    |-> << << "a_1", 6 >>, << "a_1", 8 >> >>,
         copied       |-> {"spread_x_lo", "spread_x_hi", "spread_y_lo", "spread_y_hi",
                           "spread_z_lo", "spread_z_hi"}]

assign_f5(spread_halves_x, spread_halves_y, spread_halves_z) ==
    assign_f3(spread_halves_y, spread_halves_z, spread_halves_x)

\* a chunk of fewer than 16 bits widened to a 16-bit array:
\* lebs2ip::<N> followed by i2lebsp::<16>
widen_16(bits) == i2lebsp(16, lebs2ip(bits))

\* the assertion at the head of assign_rotate_left
rotate_left_shift_ok(shift) == shift > 4 /\ shift < 16

\* the chunks assign_rotate_left places for one shift: the two lookup rows
\* of assign_spread_word and the one or two small chunks of the advice column
rotate_left_chunks(word_hi, c, shift) ==
    IF shift = 5 THEN
        LET b == widen_16(SubSeq(word_hi, 1, 11))
        IN  [b |-> assign_spread_word(b, c).lookup[1], c |-> assign_spread_word(b, c).lookup[2],
             a_lo |-> SubSeq(word_hi, 12, 13), a_hi |-> SubSeq(word_hi, 14, 16)]
    ELSE IF shift = 6 THEN
        LET b == widen_16(SubSeq(word_hi, 1, 10))
        IN  [b |-> assign_spread_word(b, c).lookup[1], c |-> assign_spread_word(b, c).lookup[2],
             a_lo |-> SubSeq(word_hi, 11, 13), a_hi |-> SubSeq(word_hi, 14, 16)]
    ELSE IF shift = 7 THEN
        LET b == widen_16(SubSeq(word_hi, 1, 9))
        IN  [b |-> assign_spread_word(b, c).lookup[1], c |-> assign_spread_word(b, c).lookup[2],
             a_lo |-> SubSeq(word_hi, 10, 12), a_hi |-> SubSeq(word_hi, 13, 16)]
    ELSE IF shift = 8 THEN
        LET b == widen_16(SubSeq(word_hi, 1, 8))
        IN  [b |-> assign_spread_word(b, c).lookup[1], c |-> assign_spread_word(b, c).lookup[2],
             a_lo |-> SubSeq(word_hi, 9, 12), a_hi |-> SubSeq(word_hi, 13, 16)]
    ELSE IF shift = 9 THEN
        LET a == widen_16(SubSeq(word_hi, 8, 16))
        IN  [a |-> assign_spread_word(a, c).lookup[1], c |-> assign_spread_word(a, c).lookup[2],
             b_lo |-> SubSeq(word_hi, 1, 3), b_hi |-> SubSeq(word_hi, 4, 7)]
    ELSE IF shift = 10 THEN
        LET a == widen_16(SubSeq(word_hi, 7, 16))
        IN  [a |-> assign_spread_word(a, c).lookup[1], c |-> assign_spread_word(a, c).lookup[2],
             b_lo |-> SubSeq(word_hi, 1, 3), b_hi |-> SubSeq(word_hi, 4, 6)]
    ELSE IF shift = 11 THEN
        LET a == widen_16(SubSeq(word_hi, 6, 16))
        IN  [a |-> assign_spread_word(a, c).lookup[1], c |-> assign_spread_word(a, c).lookup[2],
             b_lo |-> SubSeq(word_hi, 1, 2), b_hi |-> SubSeq(word_hi, 3, 5)]
    ELSE IF shift = 12 THEN
        LET a == widen_16(SubSeq(word_hi, 5, 16))
        IN  [a |-> assign_spread_word(a, c).lookup[1], c |-> assign_spread_word(a, c).lookup[2],
             b_lo |-> SubSeq(word_hi, 1, 2), b_hi |-> SubSeq(word_hi, 3, 4)]
    ELSE IF shift = 13 THEN
        LET a == widen_16(SubSeq(word_hi, 4, 16))
        IN  [a |-> assign_spread_word(a, c).lookup[1], c |-> assign_spread_word(a, c).lookup[2],
             b |-> SubSeq(word_hi, 1, 3)]
    ELSE IF shift = 14 THEN
        LET a == widen_16(SubSeq(word_hi, 3, 16))
        IN  [a |-> assign_spread_word(a, c).lookup[1], c |-> assign_spread_word(a, c).lookup[2],
             b |-> SubSeq(word_hi, 1, 2)]
    ELSE
        LET a == widen_16(SubSeq(word_hi, 2, 16))
        IN  [a |-> assign_spread_word(a, c).lookup[1], c |-> assign_spread_word(a, c).lookup[2],
             b |-> SubSeq(word_hi, 1, 1)]

\* assign_rotate_left.  asserted is the assertion at its head: when it fails
\* the routine panics before it computes or places anything and the caller
\* stops there; the rotated word of the record is then blank (zero).
assign_rotate_left(word, shift) ==
    LET rol_word    == IF rotate_left_shift_ok(shift)
                       THEN rol(RoundWordDense_value(word), shift)
                       ELSE array([i \in 1..32 |-> 0])
        rol_word_lo == SubSeq(rol_word, 1, 16)
        rol_word_hi == SubSeq(rol_word, 17, 32)
        word_hi     == i2lebsp(16, value_u16(word[2]))
        c           == i2lebsp(16, value_u16(word[1]))
    IN  [out         |-> << rol_word_lo, rol_word_hi >>,
         shift       |-> shift,
         asserted    |-> rotate_left_shift_ok(shift),
         selector    |-> shift - 5,
         word_lo     |-> word[1],
         word_hi     |-> word[2],
         rol_word_lo |-> rol_word_lo,
         rol_word_hi |-> rol_word_hi,
         chunks      |-> rotate_left_chunks(word_hi, c, shift),
         enabled     |-> {"s_rotate_left"},
         advice_rows |-> IF shift < 13 THEN {2, 3, 4, 5, 0, 1} ELSE {2, 3, 4, 5, 0},
         lookup_rows |-> rows_from(0, {0, 1}),
         out_cells   |-> << << "a_3", 4 >>, << "a_3", 5 >> >>,
         copied      |-> {"word_lo", "word_hi"}]

\* the dense pair of a RoundWordDense as sum_with_carry takes it
dense_u16_pair(w) == << value_u16(w[1]), value_u16(w[2]) >>

\* assign_sum_afxk leaving the round constant out of the sum
assign_sum_afxk_without_k(a, f, x, k) ==
    LET k_lo == SubSeq(k, 1, 16)
        k_hi == SubSeq(k, 17, 32)
        sc   == sum_with_carry(<< dense_u16_pair(a), dense_u16_pair(f), dense_u16_pair(x) >>)
        sw   == assign_spread_word(SubSeq(sc.sum, 1, 16), SubSeq(sc.sum, 17, 32))
    IN  [out    |-> sw.out[1],
         operands |-> << a, f, x, << k_lo, k_hi >> >>,
         carry  |-> sc.carry,
         lookup |-> sw.lookup,
         enabled     |-> {},
         advice_rows |-> {0, 1, 2, 3, 4, 5, 6, 7, 8},
         lookup_rows |-> rows_from(0, sw.lookup_rows),
         out_cells   |-> << << "a_1", 0 >>, << "a_1", 1 >> >>,
         copied      |-> {"a_lo", "a_hi", "f_lo", "f_hi", "x_lo", "x_hi"}]

assign_sum_afxk(a, f, x, k) ==
    LET k_lo == SubSeq(k, 1, 16)
        k_hi == SubSeq(k, 17, 32)
        sc   == sum_with_carry(<< dense_u16_pair(a), dense_u16_pair(f), dense_u16_pair(x),
                                  << lebs2ip(k_lo), lebs2ip(k_hi) >> >>)
        sw   == assign_spread_word(SubSeq(sc.sum, 1, 16), SubSeq(sc.sum, 17, 32))
    IN  [out    |-> sw.out[1],
         operands |-> << a, f, x, << k_lo, k_hi >> >>,
         carry  |-> sc.carry,
         lookup |-> sw.lookup,
         enabled     |-> {},
         advice_rows |-> {0, 1, 2, 3, 4, 5, 6, 7, 8},
         lookup_rows |-> rows_from(0, sw.lookup_rows),
         out_cells   |-> << << "a_1", 0 >>, << "a_1", 1 >> >>,
         copied      |-> {"a_lo", "a_hi", "f_lo", "f_hi", "x_lo", "x_hi"}]

assign_sum_re(rol_word, e) ==
    LET sc == sum_with_carry(<< dense_u16_pair(rol_word), dense_u16_pair(e) >>)
        sw == assign_spread_word(SubSeq(sc.sum, 1, 16), SubSeq(sc.sum, 17, 32))
    IN  [out    |-> RoundWord_new(sw.out[1], sw.out[2]),
         operands |-> << rol_word, e >>,
         carry  |-> sc.carry,
         lookup |-> sw.lookup,
         enabled     |-> {},
         advice_rows |-> {0, 1, 2, 3, 4},
         lookup_rows |-> rows_from(0, sw.lookup_rows),
         out_cells   |-> << << "a_1", 0 >>, << "a_1", 1 >> >>,
         copied      |-> {"rol_lo", "rol_hi", "e_lo", "e_hi"}]

assign_sum_combine_ilr(init_state_word, left_state_word, right_state_word) ==
    LET sc == sum_with_carry(<< dense_u16_pair(init_state_word),
                                dense_u16_pair(left_state_word),
                                dense_u16_pair(right_state_word) >>)
        sw == assign_spread_word(SubSeq(sc.sum, 1, 16), SubSeq(sc.sum, 17, 32))
    IN  [out    |-> RoundWord_new(sw.out[1], sw.out[2]),
         operands |-> << init_state_word, left_state_word, right_state_word >>,
         carry  |-> sc.carry,
         lookup |-> sw.lookup,
         enabled     |-> {},
         advice_rows |-> {0, 1, 2, 3, 4, 5, 6},
         lookup_rows |-> rows_from(0, sw.lookup_rows),
         out_cells   |-> << << "a_1", 0 >>, << "a_1", 1 >> >>,
         copied      |-> {"init_state_word_lo", "init_state_word_hi",
                          "left_state_word_lo", "left_state_word_hi",
                          "right_state_word_lo", "right_state_word_hi"}]

(***************************************************************************)
(* table16/compression.rs and its subregions: the state and the rounds.    *)
(* A State is a record of five options, Some(w) written << w >> and None   *)
(* written << >>; a StateWord is a word under the name of its variant.     *)
(***************************************************************************)

StateWord(variant, word) == [variant |-> variant, word |-> word]

\* State::new leaving the slot e as the empty placeholder has it
State_new_e_left_empty(a, b, c, d, e) ==
    [a |-> << a >>, b |-> << b >>, c |-> << c >>, d |-> << d >>, e |-> <<>>]

State_new(a, b, c, d, e) ==
    [a |-> << a >>, b |-> << b >>, c |-> << c >>, d |-> << d >>, e |-> << e >>]

State_empty_state == [a |-> <<>>, b |-> <<>>, c |-> <<>>, d |-> <<>>, e |-> <<>>]

\* one arm of match_state: the word of Some(variant(w)), unreachable otherwise
match_state_word(slot, variant) ==
    IF slot # <<>> /\ slot[1].variant = variant THEN slot[1].word ELSE "unreachable"

match_state(state) ==
    << match_state_word(state.a, "A"), match_state_word(state.b, "B"),
       match_state_word(state.c, "C"), match_state_word(state.d, "D"),
       match_state_word(state.e, "E") >>

\* init_iv: the round word of one IV word, dense for A and E
init_iv_dense(word) ==
    LET halves == assign_word_and_halves(word)[2]
    IN  << halves[1].dense, halves[2].dense >>

init_iv_round_word(word) ==
    LET halves == assign_word_and_halves(word)[2]
    IN  RoundWord_new(<< halves[1].dense, halves[2].dense >>,
                      << halves[1].spread, halves[2].spread >>)

init_iv(iv) ==
    State_new(StateWord("A", init_iv_dense(iv[1])),
              StateWord("B", init_iv_round_word(iv[2])),
              StateWord("C", init_iv_round_word(iv[3])),
              StateWord("D", init_iv_round_word(iv[4])),
              StateWord("E", init_iv_dense(iv[5])))

init_with_iv(init_state) == init_iv(init_state)

\* MessageScheduleConfig::assign_msgblk_word_and_halves and process: the
\* dense halves of the sixteen words of a block
assign_msgblk_word_and_halves(word) ==
    LET halves == assign_word_and_halves(word)[2]
    IN  << word, << halves[1].dense, halves[2].dense >> >>

MessageSchedule_process(input) ==
    << array([i \in 1..BLOCK_SIZE |-> assign_msgblk_word_and_halves(input[i])[1]]),
       array([i \in 1..BLOCK_SIZE |-> assign_msgblk_word_and_halves(input[i])[2]]) >>

\* the selection of the round function with the Right lane not mirrored
round_function_of_not_mirrored(phase_idx, round_side) ==
    IF phase_idx = 1 THEN "f1"
    ELSE IF phase_idx = 2 THEN "f2"
    ELSE IF phase_idx = 3 THEN "f3"
    ELSE IF phase_idx = 4 THEN "f4"
    ELSE "f5"

\* assign_round: the round function routine the if-chain selects
round_function_of(phase_idx, round_side) ==
    IF (phase_idx = 1 /\ round_side = "Left") \/ (phase_idx = 5 /\ round_side = "Right")
        THEN "f1"
    ELSE IF (phase_idx = 2 /\ round_side = "Left") \/ (phase_idx = 4 /\ round_side = "Right")
        THEN "f2"
    ELSE IF phase_idx = 3
        THEN "f3"
    ELSE IF (phase_idx = 4 /\ round_side = "Left") \/ (phase_idx = 2 /\ round_side = "Right")
        THEN "f4"
    ELSE "f5"

\* the rows the selected routine takes
round_function_rows(name) ==
    CASE name = "f1" -> 6
      [] name = "f2" -> 11
      [] name = "f3" -> 10
      [] name = "f4" -> 11
      [] OTHER       -> 10

\* the call of the selected routine on the spread halves of B, C, D
assign_round_function(name, b, c, d) ==
    CASE name = "f1" -> assign_f1(b.spread_halves, c.spread_halves, d.spread_halves)
      [] name = "f2" -> assign_f2(b.spread_halves, c.spread_halves, d.spread_halves)
      [] name = "f3" -> assign_f3(b.spread_halves, c.spread_halves, d.spread_halves)
      [] name = "f4" -> assign_f4(b.spread_halves, c.spread_halves, d.spread_halves)
      [] OTHER       -> assign_f5(b.spread_halves, c.spread_halves, d.spread_halves)

\* the message word of a round taken from the Left table on both lanes
round_message_word_left_table(message_word_halves, round_idx, round_side) ==
    message_word_halves[MSG_SEL_IDX_LEFT[round_idx + 1] + 1]

\* the message word X of a round
round_message_word(message_word_halves, round_idx, round_side) ==
    IF round_side = "Left"
    THEN message_word_halves[MSG_SEL_IDX_LEFT[round_idx + 1] + 1]
    ELSE message_word_halves[MSG_SEL_IDX_RIGHT[round_idx + 1] + 1]

\* the round constant K of a round
round_constant(phase_idx, round_side) ==
    IF round_side = "Left" THEN ROUND_CONSTANTS_LEFT[phase_idx]
    ELSE ROUND_CONSTANTS_RIGHT[phase_idx]

\* the rotation amount of a round
\* the rotation amount read from the tables of message word indices
round_rol_shift_from_msg_sel_idx(round_idx, round_side) ==
    IF round_side = "Left" THEN MSG_SEL_IDX_LEFT[round_idx + 1]
    ELSE MSG_SEL_IDX_RIGHT[round_idx + 1]

round_rol_shift(round_idx, round_side) ==
    IF round_side = "Left" THEN ROL_AMOUNT_LEFT[round_idx + 1]
    ELSE ROL_AMOUNT_RIGHT[round_idx + 1]

\* the state of a round with the words of C and D exchanged
round_next_state_c_d_exchanged(b, d, e, t, rol10_c) ==
    State_new(StateWord("A", e), StateWord("B", t), StateWord("C", rol10_c),
              StateWord("D", b), StateWord("E", d.dense_halves))

\* the state assign_round returns
round_next_state(b, d, e, t, rol10_c) ==
    State_new(StateWord("A", e), StateWord("B", t), StateWord("C", b),
              StateWord("D", rol10_c), StateWord("E", d.dense_halves))

\* assign_round is written as its steps in order, each taking the record of
\* what the steps before it bound and placed and adding its own: the
\* matched state words and the round function output fout, ...  rows keeps
\* the value of the row counter at the call of each routine, in order.
assign_round_fout(round_idx, s, message_word_halves, row, round_side) ==
    [round_idx  |-> round_idx,
     round_side |-> round_side,
     a          |-> s[1],
     b          |-> s[2],
     c          |-> s[3],
     d          |-> s[4],
     e          |-> s[5],
     phase_idx  |-> 1 + (round_idx \div ROUND_PHASE_SIZE),
     applied    |-> << round_function_of(1 + (round_idx \div ROUND_PHASE_SIZE), round_side) >>,
     fout       |-> assign_round_function(
                        round_function_of(1 + (round_idx \div ROUND_PHASE_SIZE), round_side),
                        s[2], s[3], s[4]),
     x          |-> round_message_word(message_word_halves, round_idx, round_side),
     rows       |-> << row >>,
     row        |-> row + round_function_rows(
                        round_function_of(1 + (round_idx \div ROUND_PHASE_SIZE), round_side))]

\* ... sum_afxk = A + fout + X + K, placed at the row after the round function
assign_round_sum_afxk(r) ==
    [r EXCEPT !.row = @ + 3, !.rows = Append(@, r.row)]
        @@ [sum_afxk |-> assign_sum_afxk(r.a, r.fout.out, r.x,
                                         round_constant(r.phase_idx, r.round_side))]

\* ... rol = sum_afxk rotated left by the amount of the round
assign_round_rol(r) ==
    [r EXCEPT !.row = @ + 6, !.rows = Append(@, r.row)]
        @@ [rol_shift |-> round_rol_shift(r.round_idx, r.round_side),
            rol       |-> assign_rotate_left(r.sum_afxk.out,
                                             round_rol_shift(r.round_idx, r.round_side))]

\* ... T = rol + E
assign_round_t(r) ==
    [r EXCEPT !.row = @ + 2, !.rows = Append(@, r.row)]
        @@ [t |-> assign_sum_re(r.rol.out, r.e)]

\* ... C rotated left by 10
assign_round_rol10_c_dense(r) ==
    [r EXCEPT !.row = @ + 6, !.rows = Append(@, r.row)]
        @@ [rol10_c_dense |-> assign_rotate_left(r.c.dense_halves, 10)]

\* ... its spread form
assign_round_rol10_c(r) ==
    [r EXCEPT !.row = @ + 2, !.rows = Append(@, r.row)]
        @@ [rol10_c |-> assign_spread_dense_word(r.rol10_c_dense.out)]

\* ... and the state returned
assign_round_state(r) ==
    r @@ [state |-> round_next_state(r.b, r.d, r.e, r.t.out, r.rol10_c.out)]

\* assign_round: the state it returns (state), the row counter it leaves
\* (row), the round function routines it called (applied) and what each
\* routine it called returned and placed
assign_round(round_idx, state, message_word_halves, row, round_side) ==
    assign_round_state(assign_round_rol10_c(assign_round_rol10_c_dense(
        assign_round_t(assign_round_rol(assign_round_sum_afxk(
            assign_round_fout(round_idx, match_state(state), message_word_halves,
                              row, round_side)))))))

\* assign_combine_ilr with every sum taken at the same position in the
\* three states
assign_combine_ilr_same_position(init_state, left_state, right_state, row) ==
    LET h  == match_state(init_state)
        l  == match_state(left_state)
        r  == match_state(right_state)
        a  == assign_sum_combine_ilr(h[1], l[1], r[1])
        b  == assign_sum_combine_ilr(h[2].dense_halves, l[2].dense_halves, r[2].dense_halves)
        c  == assign_sum_combine_ilr(h[3].dense_halves, l[3].dense_halves, r[3].dense_halves)
        d  == assign_sum_combine_ilr(h[4].dense_halves, l[4].dense_halves, r[4].dense_halves)
        e  == assign_sum_combine_ilr(h[5], l[5], r[5])
    IN  [state |-> State_new(StateWord("A", a.out.dense_halves), StateWord("B", b.out),
                             StateWord("C", c.out), StateWord("D", d.out),
                             StateWord("E", e.out.dense_halves)),
         row   |-> row + 15,
         rows  |-> << row, row + 3, row + 6, row + 9, row + 12 >>,
         sums  |-> << a, b, c, d, e >>]

\* assign_combine_ilr: the state it returns, the row counter it leaves and
\* the five sums it placed
assign_combine_ilr(init_state, left_state, right_state, row) ==
    LET h  == match_state(init_state)
        l  == match_state(left_state)
        r  == match_state(right_state)
        h0 == h[1]
        h1 == h[2]
        h2 == h[3]
        h3 == h[4]
        h4 == h[5]
        a  == assign_sum_combine_ilr(h1.dense_halves, l[3].dense_halves, r[4].dense_halves)
        b  == assign_sum_combine_ilr(h2.dense_halves, l[4].dense_halves, r[5])
        c  == assign_sum_combine_ilr(h3.dense_halves, l[5], r[1])
        d  == assign_sum_combine_ilr(h4, l[1], r[2].dense_halves)
        e  == assign_sum_combine_ilr(h0, l[2].dense_halves, r[3].dense_halves)
    IN  [state |-> State_new(StateWord("A", a.out.dense_halves), StateWord("B", b.out),
                             StateWord("C", c.out), StateWord("D", d.out),
                             StateWord("E", e.out.dense_halves)),
         row   |-> row + 3 + 3 + 3 + 3 + 3,
         rows  |-> << row, row + 3, row + 3 + 3, row + 3 + 3 + 3, row + 3 + 3 + 3 + 3 >>,
         sums  |-> << a, b, c, d, e >>]

\* what one call of a routine at a row places in the region: the selectors
\* it enables and the rows it assigns, as rows of the region
placement(routine, row, placed) ==
    [routine     |-> routine,
     row         |-> row,
     enabled     |-> {<< s, row >> : s \in placed.enabled},
     advice_rows |-> rows_from(row, placed.advice_rows),
     lookup_rows |-> rows_from(row, placed.lookup_rows)]

\* the calls of one assign_round in order, each at the row it was given
assign_round_placements(r) ==
    << placement(r.applied[1], r.rows[1], r.fout),
       placement("sum_afxk", r.rows[2], r.sum_afxk),
       placement("rotate_left", r.rows[3], r.rol),
       placement("sum_re", r.rows[4], r.t),
       placement("rotate_left", r.rows[5], r.rol10_c_dense),
       placement("spread_dense_word", r.rows[6], r.rol10_c) >>

\* the five calls of assign_combine_ilr in order
assign_combine_ilr_placements(r) ==
    array([i \in 1..5 |-> placement("sum_combine_ilr", r.rows[i], r.sums[i])])

\* assign_decompose_word_dense: the cells word_lo, word_hi and word(u32)
assign_decompose_word_dense(word) ==
    [word_lo |-> word[1], word_hi |-> word[2], word |-> RoundWordDense_value(word)]

\* assign_digest returning the rotated D word in the place of D
assign_digest_d_rotated(state) ==
    LET s == match_state(state)
    IN  [out |-> << RoundWordDense_value(s[1]),
                    RoundWordDense_value(s[2].dense_halves),
                    RoundWordDense_value(s[3].dense_halves),
                    rol(RoundWordDense_value(s[4].dense_halves), 10),
                    RoundWordDense_value(s[5]) >>,
         decompose |-> << assign_decompose_word_dense(s[1]),
                          assign_decompose_word_dense(s[2].dense_halves),
                          assign_decompose_word_dense(s[3].dense_halves),
                          assign_decompose_word_dense(s[4].dense_halves),
                          assign_decompose_word_dense(s[5]) >>]

\* assign_digest: the five block words it returns and the cells it placed
assign_digest(state) ==
    LET s == match_state(state)
        a == s[1]
        b == s[2]
        c == s[3]
        d == s[4]
        e == s[5]
    IN  [out |-> << RoundWordDense_value(a),
                    RoundWordDense_value(b.dense_halves),
                    RoundWordDense_value(c.dense_halves),
                    RoundWordDense_value(d.dense_halves),
                    RoundWordDense_value(e) >>,
         decompose |-> << assign_decompose_word_dense(a),
                          assign_decompose_word_dense(b.dense_halves),
                          assign_decompose_word_dense(c.dense_halves),
                          assign_decompose_word_dense(d.dense_halves),
                          assign_decompose_word_dense(e) >>]

\* CompressionConfig::digest and Table16Chip::digest
CompressionConfig_digest(state) == assign_digest(state).out

Table16Chip_digest(state) == CompressionConfig_digest(state)

\* Table16Chip::init_vector
init_vector == init_with_iv(INITIAL_VALUES)

\* table16::util::convert_byte_slice_to_blockword_slice: the sixteen
\* little-endian words of a block of 64 bytes
convert_byte_slice_to_blockword_slice(bytes) ==
    array([i \in 1..BLOCK_SIZE |->
        u32_from_le_bytes(bytes[4 * i - 3], bytes[4 * i - 2], bytes[4 * i - 1], bytes[4 * i])])

\* the preprocessing of Ripemd160TestCircuit::synthesize
preprocess(input) ==
    LET padded == pad_message_bytes(input)
    IN  array([k \in 1..Len(padded) |-> convert_byte_slice_to_blockword_slice(padded[k])])

(***************************************************************************)
(* table16/gates.rs and table16/compression/compression_gates.rs: gates.   *)
(* A gate is the conjunction of its constraints on the values of the cells *)
(* it is given, with the selector on.  The field is Fp, the base field of  *)
(* the Pallas curve, the field the gates are instantiated with.  A field   *)
(* element is its canonical representative below the modulus, as sixteen   *)
(* 16-bit limbs, least significant first; sums and products are reduced    *)
(* modulo the modulus and never truncated.  A constraint lhs - rhs = 0 is  *)
(* the equation lhs = rhs of field elements.                               *)
(***************************************************************************)

\* the modulus of Fp,
\* 0x40000000000000000000000000000000224698fc094cf91a992d30ed00000001
F_MODULUS ==
    << 1, 0, 12525, 39213, 63770, 2380, 39164, 8774, 0, 0, 0, 0, 0, 0, 0, 16384 >>

\* limbs k..16 of x + y + carry, followed by the carry out of limb 16
RECURSIVE limbs_add_from(_, _, _, _)
limbs_add_from(x, y, k, carry) ==
    IF k > 16 THEN << carry >>
    ELSE LET t == x[k] + y[k] + carry
         IN  << t % 65536 >> \o limbs_add_from(x, y, k + 1, t \div 65536)

\* the field element of a cell of Bits<N>, From<&Bits<LEN>> for Assigned<F>:
\* assert!(LEN <= 64) fails for a longer array; otherwise F::from of the
\* integer of the bits
F_of_bits(bits) ==
    IF ~(Len(bits) <= 64) THEN "panic"
    ELSE array([k \in 1..16 |->
            lebs2ip_range(bits, 16 * k - 15,
                          IF 16 * k <= Len(bits) THEN 16 * k ELSE Len(bits))])

\* F::from(v) for a small integer v (a tag, a carry)
F_from(v) == array([k \in 1..16 |-> IF k = 1 THEN v % 65536 ELSE IF k = 2 THEN v \div 65536 ELSE 0])

\* x + y in Fp: the integer sum, less the modulus when it reaches it (the sum
\* plus 2^256 - modulus carries out of limb 16 exactly in that case)
F_add(x, y) ==
    LET s == SubSeq(limbs_add_from(x, y, 1, 0), 1, 16)
        d == limbs_add_from(s, [k \in 1..16 |-> 65535 - F_MODULUS[k]], 1, 1)
    IN  IF d[17] = 1 THEN SubSeq(d, 1, 16) ELSE s

\* x * F::from(1 << n) in Fp: the limbs shifted while the product stays
\* below 2^240; otherwise doubled modulo the modulus, n times (by halves of
\* n to keep the evaluation shallow)
RECURSIVE F_mul_pow2(_, _)
F_mul_pow2(x, n) ==
    IF n = 0 THEN x
    ELSE IF n < 224 /\ \A k \in (15 - n \div 16)..16 : x[k] = 0
    THEN LET q       == n \div 16
             r       == n % 16
             limb(j) == IF j >= 1 THEN x[j] ELSE 0
         IN  array([k \in 1..16 |->
                 ((limb(k - q) * (2 ^ r)) % 65536) + (limb(k - q - 1) \div (2 ^ (16 - r)))])
    ELSE IF n = 1 THEN F_add(x, x)
    ELSE F_mul_pow2(F_mul_pow2(x, n \div 2), n - n \div 2)

\* Gate::range_check(value, lower, upper): the product of (value - i) over
\* lower..upper vanishes
Gate_range_check(value, lower, upper) == \E i \in lower..upper : value = F_from(i)

\* Gate::s_decompose_word: lo + hi * 2^16 - word = 0
Gate_s_decompose_word(lo, hi, word) == F_add(lo, F_mul_pow2(hi, 16)) = word

Gate_two_bit_range(value) == Gate_range_check(value, 0, 3)

Gate_three_bit_range(value) == Gate_range_check(value, 0, 7)

Gate_four_bit_range(value) == Gate_range_check(value, 0, 15)

\* the even bits of a 32-bit spread value all set: 0x55555555
MASK_EVEN_32 == 1431655765

\* Self::ones() * F::from(MASK_EVEN_32 as u64)
F_evens == F_of_bits(i2lebsp(31, MASK_EVEN_32))

\* f2_gate, a constraint "e = 0" with e = lhs - rhs written lhs = rhs:
\* lo_check and hi_check of neg_check, p_check, q_check, sum_f2f4 and
\* range_check_carry
f2_gate(spread_p0_even, spread_p0_odd, spread_p1_even, spread_p1_odd, p0_odd, p1_odd, spread_q0_even, spread_q0_odd, spread_q1_even, spread_q1_odd, q0_odd, q1_odd, spread_b_lo, spread_b_hi, spread_c_lo, spread_c_hi, spread_d_lo, spread_d_hi, spread_b_neg_lo, spread_b_neg_hi, sum_lo, sum_hi, carry) ==
    /\ F_add(spread_b_neg_lo, spread_b_lo) = F_evens
    /\ F_add(spread_b_neg_hi, spread_b_hi) = F_evens
    /\ F_add(F_add(spread_b_lo, spread_c_lo), F_mul_pow2(F_add(spread_b_hi, spread_c_hi), 32))
            = F_add(F_add(spread_p0_even, F_mul_pow2(spread_p1_even, 32)),
                    F_mul_pow2(F_add(spread_p0_odd, F_mul_pow2(spread_p1_odd, 32)), 1))
    /\ F_add(F_add(spread_b_neg_lo, spread_d_lo),
             F_mul_pow2(F_add(spread_b_neg_hi, spread_d_hi), 32))
            = F_add(F_add(spread_q0_even, F_mul_pow2(spread_q1_even, 32)),
                    F_mul_pow2(F_add(spread_q0_odd, F_mul_pow2(spread_q1_odd, 32)), 1))
    /\ F_add(F_add(p0_odd, q0_odd), F_mul_pow2(F_add(p1_odd, q1_odd), 16))
            = F_add(F_mul_pow2(carry, 32), F_add(sum_lo, F_mul_pow2(sum_hi, 16)))
    /\ Gate_range_check(carry, 0, 0)

\* f3_gate: y_lo_check, y_hi_check, sum_x_not_y, or_x_not_y and
\* or_x_not_y_xor_z
f3_gate(spread_r0_even, spread_r0_odd, spread_r1_even, spread_r1_odd, spread_or_lo, spread_or_hi, spread_sum0_even, spread_sum0_odd, spread_sum1_even, spread_sum1_odd, spread_x_lo, spread_x_hi, spread_y_lo, spread_y_hi, spread_y_neg_lo, spread_y_neg_hi, spread_z_lo, spread_z_hi) ==
    /\ F_add(spread_y_neg_lo, spread_y_lo) = F_evens
    /\ F_add(spread_y_neg_hi, spread_y_hi) = F_evens
    /\ F_add(F_add(spread_x_lo, spread_y_neg_lo),
             F_mul_pow2(F_add(spread_x_hi, spread_y_neg_hi), 32))
            = F_add(F_add(spread_sum0_even, F_mul_pow2(spread_sum1_even, 32)),
                    F_mul_pow2(F_add(spread_sum0_odd, F_mul_pow2(spread_sum1_odd, 32)), 1))
    /\ F_add(F_add(spread_sum0_even, spread_sum0_odd),
             F_mul_pow2(F_add(spread_sum1_even, spread_sum1_odd), 32))
            = F_add(spread_or_lo, F_mul_pow2(spread_or_hi, 32))
    /\ F_add(F_add(spread_or_lo, F_mul_pow2(spread_or_hi, 32)),
             F_add(spread_z_lo, F_mul_pow2(spread_z_hi, 32)))
            = F_add(F_add(spread_r0_even, F_mul_pow2(spread_r1_even, 32)),
                    F_mul_pow2(F_add(spread_r0_odd, F_mul_pow2(spread_r1_odd, 32)), 1))

\* f2_gate on the values assign_f2 places for the operands x, y, z, each
\* value bound to the gate argument it is placed for (P from x + y, Q from
\* the negated x + z), with carry for the carry; the binding is by argument
\* name, not by the column and row configure queries
f2_gate_on(r, spread_halves_x, spread_halves_y, spread_halves_z, carry) ==
    f2_gate(F_of_bits(r.lookup[1].spread), F_of_bits(r.lookup[2].spread),
            F_of_bits(r.lookup[3].spread), F_of_bits(r.lookup[4].spread),
            F_of_bits(r.lookup[2].dense), F_of_bits(r.lookup[4].dense),
            F_of_bits(r.lookup[5].spread), F_of_bits(r.lookup[6].spread),
            F_of_bits(r.lookup[7].spread), F_of_bits(r.lookup[8].spread),
            F_of_bits(r.lookup[6].dense), F_of_bits(r.lookup[8].dense),
            F_of_bits(spread_halves_x[1]), F_of_bits(spread_halves_x[2]),
            F_of_bits(spread_halves_y[1]), F_of_bits(spread_halves_y[2]),
            F_of_bits(spread_halves_z[1]), F_of_bits(spread_halves_z[2]),
            F_of_bits(r.spread_neg_x[1]), F_of_bits(r.spread_neg_x[2]),
            F_of_bits(r.out[1]), F_of_bits(r.out[2]), F_from(carry))

\* f3_gate on the values assign_f3 places for the operands x, y, z, bound by
\* argument name
f3_gate_on(r, spread_halves_x, spread_halves_y, spread_halves_z) ==
    f3_gate(F_of_bits(r.lookup[7].spread), F_of_bits(r.lookup[8].spread),
            F_of_bits(r.lookup[9].spread), F_of_bits(r.lookup[10].spread),
            F_of_bits(r.lookup[5].spread), F_of_bits(r.lookup[6].spread),
            F_of_bits(r.lookup[1].spread), F_of_bits(r.lookup[2].spread),
            F_of_bits(r.lookup[3].spread), F_of_bits(r.lookup[4].spread),
            F_of_bits(spread_halves_x[1]), F_of_bits(spread_halves_x[2]),
            F_of_bits(spread_halves_y[1]), F_of_bits(spread_halves_y[2]),
            F_of_bits(r.spread_neg_y[1]), F_of_bits(r.spread_neg_y[2]),
            F_of_bits(spread_halves_z[1]), F_of_bits(spread_halves_z[2]))

rotate_left_5_gate(a_lo, a_hi, b, tag_b, c, word_lo, word_hi, rol_word_lo, rol_word_hi) ==
    /\ Gate_range_check(tag_b, 0, 3)
    /\ Gate_two_bit_range(a_lo)
    /\ Gate_three_bit_range(a_hi)
    /\ F_add(F_add(c, F_mul_pow2(b, 16)), F_add(F_mul_pow2(a_lo, 27), F_mul_pow2(a_hi, 29)))
            = F_add(word_lo, F_mul_pow2(word_hi, 16))
    /\ F_add(F_add(a_lo, F_mul_pow2(a_hi, 2)), F_add(F_mul_pow2(c, 5), F_mul_pow2(b, 21)))
            = F_add(rol_word_lo, F_mul_pow2(rol_word_hi, 16))

rotate_left_6_gate(a_lo, a_hi, b, tag_b, c, word_lo, word_hi, rol_word_lo, rol_word_hi) ==
    /\ Gate_range_check(tag_b, 0, 2)
    /\ Gate_three_bit_range(a_lo)
    /\ Gate_three_bit_range(a_hi)
    /\ F_add(F_add(c, F_mul_pow2(b, 16)), F_add(F_mul_pow2(a_lo, 26), F_mul_pow2(a_hi, 29)))
            = F_add(word_lo, F_mul_pow2(word_hi, 16))
    /\ F_add(F_add(a_lo, F_mul_pow2(a_hi, 3)), F_add(F_mul_pow2(c, 6), F_mul_pow2(b, 22)))
            = F_add(rol_word_lo, F_mul_pow2(rol_word_hi, 16))

\* the gate of shift 7 with the tag of b admitted up to 2 (b < 2^10)
rotate_left_7_gate_tag_b_up_to_2(a_lo, a_hi, b, tag_b, c, word_lo, word_hi, rol_word_lo, rol_word_hi) ==
    /\ Gate_range_check(tag_b, 0, 2)
    /\ Gate_three_bit_range(a_lo)
    /\ Gate_four_bit_range(a_hi)
    /\ F_add(F_add(c, F_mul_pow2(b, 16)), F_add(F_mul_pow2(a_lo, 25), F_mul_pow2(a_hi, 28)))
            = F_add(word_lo, F_mul_pow2(word_hi, 16))
    /\ F_add(F_add(a_lo, F_mul_pow2(a_hi, 3)), F_add(F_mul_pow2(c, 7), F_mul_pow2(b, 23)))
            = F_add(rol_word_lo, F_mul_pow2(rol_word_hi, 16))

rotate_left_7_gate(a_lo, a_hi, b, tag_b, c, word_lo, word_hi, rol_word_lo, rol_word_hi) ==
    /\ Gate_range_check(tag_b, 0, 1)
    /\ Gate_three_bit_range(a_lo)
    /\ Gate_four_bit_range(a_hi)
    /\ F_add(F_add(c, F_mul_pow2(b, 16)), F_add(F_mul_pow2(a_lo, 25), F_mul_pow2(a_hi, 28)))
            = F_add(word_lo, F_mul_pow2(word_hi, 16))
    /\ F_add(F_add(a_lo, F_mul_pow2(a_hi, 3)), F_add(F_mul_pow2(c, 7), F_mul_pow2(b, 23)))
            = F_add(rol_word_lo, F_mul_pow2(rol_word_hi, 16))

rotate_left_8_gate(a_lo, a_hi, b, tag_b, c, word_lo, word_hi, rol_word_lo, rol_word_hi) ==
    /\ Gate_range_check(tag_b, 0, 0)
    /\ Gate_four_bit_range(a_lo)
    /\ Gate_four_bit_range(a_hi)
    /\ F_add(F_add(c, F_mul_pow2(b, 16)), F_add(F_mul_pow2(a_lo, 24), F_mul_pow2(a_hi, 28)))
            = F_add(word_lo, F_mul_pow2(word_hi, 16))
    /\ F_add(F_add(a_lo, F_mul_pow2(a_hi, 4)), F_add(F_mul_pow2(c, 8), F_mul_pow2(b, 24)))
            = F_add(rol_word_lo, F_mul_pow2(rol_word_hi, 16))

rotate_left_9_gate(a, tag_a, b_lo, b_hi, c, word_lo, word_hi, rol_word_lo, rol_word_hi) ==
    /\ Gate_range_check(tag_a, 0, 1)
    /\ Gate_three_bit_range(b_lo)
    /\ Gate_four_bit_range(b_hi)
    /\ F_add(F_add(c, F_mul_pow2(b_lo, 16)), F_add(F_mul_pow2(b_hi, 19), F_mul_pow2(a, 23)))
            = F_add(word_lo, F_mul_pow2(word_hi, 16))
    /\ F_add(F_add(a, F_mul_pow2(c, 9)), F_add(F_mul_pow2(b_lo, 25), F_mul_pow2(b_hi, 28)))
            = F_add(rol_word_lo, F_mul_pow2(rol_word_hi, 16))

rotate_left_10_gate(a, tag_a, b_lo, b_hi, c, word_lo, word_hi, rol_word_lo, rol_word_hi) ==
    /\ Gate_range_check(tag_a, 0, 2)
    /\ Gate_three_bit_range(b_lo)
    /\ Gate_three_bit_range(b_hi)
    /\ F_add(F_add(c, F_mul_pow2(b_lo, 16)), F_add(F_mul_pow2(b_hi, 19), F_mul_pow2(a, 22)))
            = F_add(word_lo, F_mul_pow2(word_hi, 16))
    /\ F_add(F_add(a, F_mul_pow2(c, 10)), F_add(F_mul_pow2(b_lo, 26), F_mul_pow2(b_hi, 29)))
            = F_add(rol_word_lo, F_mul_pow2(rol_word_hi, 16))

rotate_left_11_gate(a, tag_a, b_lo, b_hi, c, word_lo, word_hi, rol_word_lo, rol_word_hi) ==
    /\ Gate_range_check(tag_a, 0, 3)
    /\ Gate_two_bit_range(b_lo)
    /\ Gate_three_bit_range(b_hi)
    /\ F_add(F_add(c, F_mul_pow2(b_lo, 16)), F_add(F_mul_pow2(b_hi, 18), F_mul_pow2(a, 21)))
            = F_add(word_lo, F_mul_pow2(word_hi, 16))
    /\ F_add(F_add(a, F_mul_pow2(c, 11)), F_add(F_mul_pow2(b_lo, 27), F_mul_pow2(b_hi, 29)))
            = F_add(rol_word_lo, F_mul_pow2(rol_word_hi, 16))

rotate_left_12_gate(a, tag_a, b_lo, b_hi, c, word_lo, word_hi, rol_word_lo, rol_word_hi) ==
    /\ Gate_range_check(tag_a, 0, 4)
    /\ Gate_two_bit_range(b_lo)
    /\ Gate_two_bit_range(b_hi)
    /\ F_add(F_add(c, F_mul_pow2(b_lo, 16)), F_add(F_mul_pow2(b_hi, 18), F_mul_pow2(a, 20)))
            = F_add(word_lo, F_mul_pow2(word_hi, 16))
    /\ F_add(F_add(a, F_mul_pow2(c, 12)), F_add(F_mul_pow2(b_lo, 28), F_mul_pow2(b_hi, 30)))
            = F_add(rol_word_lo, F_mul_pow2(rol_word_hi, 16))

rotate_left_13_gate(a, tag_a, b, c, word_lo, word_hi, rol_word_lo, rol_word_hi) ==
    /\ Gate_range_check(tag_a, 0, 5)
    /\ Gate_three_bit_range(b)
    /\ F_add(F_add(c, F_mul_pow2(b, 16)), F_mul_pow2(a, 19))
            = F_add(word_lo, F_mul_pow2(word_hi, 16))
    /\ F_add(F_add(a, F_mul_pow2(c, 13)), F_mul_pow2(b, 29))
            = F_add(rol_word_lo, F_mul_pow2(rol_word_hi, 16))

rotate_left_14_gate(a, tag_a, b, c, word_lo, word_hi, rol_word_lo, rol_word_hi) ==
    /\ Gate_range_check(tag_a, 0, 6)
    /\ Gate_two_bit_range(b)
    /\ F_add(F_add(c, F_mul_pow2(b, 16)), F_mul_pow2(a, 18))
            = F_add(word_lo, F_mul_pow2(word_hi, 16))
    /\ F_add(F_add(a, F_mul_pow2(c, 14)), F_mul_pow2(b, 30))
            = F_add(rol_word_lo, F_mul_pow2(rol_word_hi, 16))

rotate_left_15_gate(a, tag_a, b, c, word_lo, word_hi, rol_word_lo, rol_word_hi) ==
    /\ Gate_range_check(tag_a, 0, 7)
    /\ Gate_range_check(b, 0, 1)
    /\ F_add(F_add(c, F_mul_pow2(b, 16)), F_mul_pow2(a, 17))
            = F_add(word_lo, F_mul_pow2(word_hi, 16))
    /\ F_add(F_add(a, F_mul_pow2(c, 15)), F_mul_pow2(b, 31))
            = F_add(rol_word_lo, F_mul_pow2(rol_word_hi, 16))

\* the sum_check constraint shared by the three sum gates:
\* lo + hi * 2^16 - carry * 2^32 - (sum_lo + sum_hi * 2^16) = 0
sum_check(lo, hi, carry, sum_lo, sum_hi) ==
    F_add(lo, F_mul_pow2(hi, 16))
        = F_add(F_mul_pow2(carry, 32), F_add(sum_lo, F_mul_pow2(sum_hi, 16)))

sum_afxk_gate(sum_lo, sum_hi, carry, a_lo, a_hi, f_lo, f_hi, x_lo, x_hi, k_lo, k_hi) ==
    /\ Gate_range_check(carry, 0, 2)
    /\ sum_check(F_add(F_add(a_lo, f_lo), F_add(x_lo, k_lo)),
                 F_add(F_add(a_hi, f_hi), F_add(x_hi, k_hi)), carry, sum_lo, sum_hi)

sum_re_gate(sum_lo, sum_hi, carry, rol_lo, rol_hi, e_lo, e_hi) ==
    /\ Gate_range_check(carry, 0, 1)
    /\ sum_check(F_add(rol_lo, e_lo), F_add(rol_hi, e_hi), carry, sum_lo, sum_hi)

sum_combine_ilr(sum_lo, sum_hi, carry, init_state_lo, init_state_hi, left_state_lo, left_state_hi, right_state_lo, right_state_hi) ==
    /\ Gate_range_check(carry, 0, 1)
    /\ sum_check(F_add(F_add(init_state_lo, left_state_lo), right_state_lo),
                 F_add(F_add(init_state_hi, left_state_hi), right_state_hi),
                 carry, sum_lo, sum_hi)

\* one chunk of a rotate gate: the cell, how the gate bounds it (no check
\* for c, which the lookup keeps to 16 bits; a range check of its tag; a
\* range check of the cell) with the upper bound of that check, and the
\* power of two that scales it in word_check and in rol_word_check
gate_chunk(cell, kind, bound, word_shift, rol_shift) ==
    [cell |-> cell, kind |-> kind, bound |-> bound,
     word_shift |-> word_shift, rol_shift |-> rol_shift]

\* the chunks of the rotate gate of each shift, in the order of word_check
rotate_left_gate_chunks(shift) ==
    CASE shift = 5 ->
            << gate_chunk("c", "lookup", 8, 0, 5), gate_chunk("b", "tag", 3, 16, 21),
               gate_chunk("a_lo", "range", 3, 27, 0), gate_chunk("a_hi", "range", 7, 29, 2) >>
      [] shift = 6 ->
            << gate_chunk("c", "lookup", 8, 0, 6), gate_chunk("b", "tag", 2, 16, 22),
               gate_chunk("a_lo", "range", 7, 26, 0), gate_chunk("a_hi", "range", 7, 29, 3) >>
      [] shift = 7 ->
            << gate_chunk("c", "lookup", 8, 0, 7), gate_chunk("b", "tag", 1, 16, 23),
               gate_chunk("a_lo", "range", 7, 25, 0), gate_chunk("a_hi", "range", 15, 28, 3) >>
      [] shift = 8 ->
            << gate_chunk("c", "lookup", 8, 0, 8), gate_chunk("b", "tag", 0, 16, 24),
               gate_chunk("a_lo", "range", 15, 24, 0), gate_chunk("a_hi", "range", 15, 28, 4) >>
      [] shift = 9 ->
            << gate_chunk("c", "lookup", 8, 0, 9), gate_chunk("b_lo", "range", 7, 16, 25),
               gate_chunk("b_hi", "range", 15, 19, 28), gate_chunk("a", "tag", 1, 23, 0) >>
      [] shift = 10 ->
            << gate_chunk("c", "lookup", 8, 0, 10), gate_chunk("b_lo", "range", 7, 16, 26),
               gate_chunk("b_hi", "range", 7, 19, 29), gate_chunk("a", "tag", 2, 22, 0) >>
      [] shift = 11 ->
            << gate_chunk("c", "lookup", 8, 0, 11), gate_chunk("b_lo", "range", 3, 16, 27),
               gate_chunk("b_hi", "range", 7, 18, 29), gate_chunk("a", "tag", 3, 21, 0) >>
      [] shift = 12 ->
            << gate_chunk("c", "lookup", 8, 0, 12), gate_chunk("b_lo", "range", 3, 16, 28),
               gate_chunk("b_hi", "range", 3, 18, 30), gate_chunk("a", "tag", 4, 20, 0) >>
      [] shift = 13 ->
            << gate_chunk("c", "lookup", 8, 0, 13), gate_chunk("b", "range", 7, 16, 29),
               gate_chunk("a", "tag", 5, 19, 0) >>
      [] shift = 14 ->
            << gate_chunk("c", "lookup", 8, 0, 14), gate_chunk("b", "range", 3, 16, 30),
               gate_chunk("a", "tag", 6, 18, 0) >>
      [] OTHER ->
            << gate_chunk("c", "lookup", 8, 0, 15), gate_chunk("b", "range", 1, 16, 31),
               gate_chunk("a", "tag", 7, 17, 0) >>

\* the rotate gate of the shift of r on the chunk cells of r and on the
\* field elements wl, wh, rl, rh for word_lo, word_hi, rol_word_lo and
\* rol_word_hi
rotate_left_gate_with(r, wl, wh, rl, rh) ==
    LET ch  == r.chunks
        c   == F_of_bits(ch.c.dense)
    IN  CASE r.shift = 5 -> rotate_left_5_gate(F_of_bits(ch.a_lo), F_of_bits(ch.a_hi),
                                F_of_bits(ch.b.dense), F_from(ch.b.tag), c, wl, wh, rl, rh)
          [] r.shift = 6 -> rotate_left_6_gate(F_of_bits(ch.a_lo), F_of_bits(ch.a_hi),
                                F_of_bits(ch.b.dense), F_from(ch.b.tag), c, wl, wh, rl, rh)
          [] r.shift = 7 -> rotate_left_7_gate(F_of_bits(ch.a_lo), F_of_bits(ch.a_hi),
                                F_of_bits(ch.b.dense), F_from(ch.b.tag), c, wl, wh, rl, rh)
          [] r.shift = 8 -> rotate_left_8_gate(F_of_bits(ch.a_lo), F_of_bits(ch.a_hi),
                                F_of_bits(ch.b.dense), F_from(ch.b.tag), c, wl, wh, rl, rh)
          [] r.shift = 9 -> rotate_left_9_gate(F_of_bits(ch.a.dense), F_from(ch.a.tag),
                                F_of_bits(ch.b_lo), F_of_bits(ch.b_hi), c, wl, wh, rl, rh)
          [] r.shift = 10 -> rotate_left_10_gate(F_of_bits(ch.a.dense), F_from(ch.a.tag),
                                F_of_bits(ch.b_lo), F_of_bits(ch.b_hi), c, wl, wh, rl, rh)
          [] r.shift = 11 -> rotate_left_11_gate(F_of_bits(ch.a.dense), F_from(ch.a.tag),
                                F_of_bits(ch.b_lo), F_of_bits(ch.b_hi), c, wl, wh, rl, rh)
          [] r.shift = 12 -> rotate_left_12_gate(F_of_bits(ch.a.dense), F_from(ch.a.tag),
                                F_of_bits(ch.b_lo), F_of_bits(ch.b_hi), c, wl, wh, rl, rh)
          [] r.shift = 13 -> rotate_left_13_gate(F_of_bits(ch.a.dense), F_from(ch.a.tag),
                                F_of_bits(ch.b), c, wl, wh, rl, rh)
          [] r.shift = 14 -> rotate_left_14_gate(F_of_bits(ch.a.dense), F_from(ch.a.tag),
                                F_of_bits(ch.b), c, wl, wh, rl, rh)
          [] OTHER -> rotate_left_15_gate(F_of_bits(ch.a.dense), F_from(ch.a.tag),
                                F_of_bits(ch.b), c, wl, wh, rl, rh)

\* the rotate gate on the cells configure queries, at the row where
\* assign_rotate_left enables the selector: the tag in a_0, the looked-up
\* chunk and c in a_1 (rows 0 and 1), the small chunks in a_3 (rows 0 and
\* 1), which are the cells the routine places them in; word_lo and word_hi
\* in a_4 and rol_word_lo and rol_word_hi in a_5 (rows 0 and 1), which the
\* routine does not write (it places the four halves in a_3, rows 2 to 5).
\* A cell that is not written holds zero.
rotate_left_gate_on(r) ==
    rotate_left_gate_with(r, F_from(0), F_from(0), F_from(0), F_from(0))

(***************************************************************************)
(* State.  pc is the position of the run; each group of variables belongs  *)
(* to one of the runs below and keeps its idle value in the others.        *)
(***************************************************************************)
VARIABLES
    pc,         \* position of the run
    msg_bytes,  \* padding run: the argument of pad_message_bytes
    blocks,     \* padding run: the blocks it returned
    gt_words,   \* gate run: the words b, c, d, k of the tester
    gt_loaded,  \* gate run: b, c, d as round words, once loaded
    gt_result,  \* gate run: what the last assignment routine returned and placed
    input,      \* gadget run: the input bytes of the test circuit
    data,       \* gadget run: the padded input as blocks of sixteen block words
    hasher,     \* gadget run: the state field of the RIPEMD160 hasher
    consumed,   \* gadget run: the number of blocks the loop of update has consumed
    locals,     \* gadget run: the locals of the compress call in progress
    last_call,  \* gadget run: the last subregion routine called, with its arguments
    digest,     \* gadget run: the block words finalize returned
    compressed, \* gadget run: the compress calls that returned, in order
    failure,    \* gadget run: << e >> once RIPEMD160::digest returned Err(e)
    table       \* table run: the row iterator, the rows assigned, the lookups met

vars_pad == << msg_bytes, blocks >>

vars_gates == << gt_words, gt_loaded, gt_result >>

vars_gadget ==
    << input, data, hasher, consumed, locals, last_call, digest, compressed, failure >>

vars_table == << table >>

vars == << pc, msg_bytes, blocks, gt_words, gt_loaded, gt_result,
           input, data, hasher, consumed, locals, last_call, digest, compressed,
           failure, table >>

PadIdle == msg_bytes = <<>> /\ blocks = <<>>

GatesIdle == gt_words = <<>> /\ gt_loaded = <<>> /\ gt_result = <<>>

GadgetIdle ==
    /\ input = <<>>
    /\ data = <<>>
    /\ hasher = <<>>
    /\ consumed = 0
    /\ locals = <<>>
    /\ last_call = <<>>
    /\ digest = <<>>
    /\ compressed = <<>>
    /\ failure = <<>>

TableIdle == table = <<>>

(***************************************************************************)
(* Padding run: pad_message_bytes on messages of every length up to        *)
(* MaxMsgLen (two full blocks and both branches of the gap test).          *)
(***************************************************************************)
MaxMsgLen == 130

\* a message of n bytes, the bytes varying with position and length
sample_message(n) == array([i \in 1..n |-> (37 * i + 11 * n + 1) % 256])

InitPad ==
    /\ pc = "pad_start"
    /\ \E n \in 0..MaxMsgLen : msg_bytes = sample_message(n)
    /\ blocks = <<>>
    /\ GatesIdle
    /\ GadgetIdle
    /\ TableIdle

\* pad_message_bytes returns the blocks, or panics at its assertion
PadMessage ==
    /\ pc = "pad_start"
    /\ IF Len(padded_msg(msg_bytes)) % BLOCK_SIZE_BYTES = 0
            THEN blocks' = pad_message_bytes(msg_bytes) /\ pc' = "padded"
            ELSE blocks' = <<>> /\ pc' = "pad_panicked"
    /\ UNCHANGED << msg_bytes, vars_gates, vars_gadget, vars_table >>

NextPad == PadMessage

SpecPad == InitPad /\ [][NextPad]_vars

(***************************************************************************)
(* Gate run: CompressionGateTester::synthesize on words b, c, d, k drawn   *)
(* from the first NumGateWords sample words.  It loads b, c, d, then calls *)
(* each assignment routine once, in the order of the tester.               *)
(***************************************************************************)
NumGateWords == 4

\* sample words: all ones, zero, two words of mixed bits, the top and
\* bottom bit alone, alternating bits
gate_sample_words ==
    << u32_of_halves(65535, 65535), u32_of_halves(0, 0),
       u32_of_halves(8961, 26437), u32_of_halves(48348, 36635),
       u32_of_halves(1, 32768), u32_of_halves(43690, 21845),
       u32_of_halves(65535, 0), u32_of_halves(4660, 65244) >>

\* the round word of a loaded word: the dense and spread cells of its halves
loaded_round_word(word) ==
    LET vars_lo_hi == assign_word_and_halves(word)[2]
    IN  RoundWord_new(<< vars_lo_hi[1].dense, vars_lo_hi[2].dense >>,
                      << vars_lo_hi[1].spread, vars_lo_hi[2].spread >>)

InitGates ==
    /\ pc = "gt_start"
    /\ \E b, c, d, k \in 1..NumGateWords :
            gt_words = [b |-> gate_sample_words[b], c |-> gate_sample_words[c],
                        d |-> gate_sample_words[d], k |-> gate_sample_words[k]]
    /\ gt_loaded = <<>>
    /\ gt_result = <<>>
    /\ PadIdle
    /\ GadgetIdle
    /\ TableIdle

GtLoad ==
    /\ pc = "gt_start"
    /\ gt_loaded' = [b |-> loaded_round_word(gt_words.b),
                     c |-> loaded_round_word(gt_words.c),
                     d |-> loaded_round_word(gt_words.d)]
    /\ pc' = "gt_loaded"
    /\ UNCHANGED << gt_words, gt_result, vars_pad, vars_gadget, vars_table >>

GtF1 ==
    /\ pc = "gt_loaded"
    /\ gt_result' = assign_f1(gt_loaded.b.spread_halves, gt_loaded.c.spread_halves,
                              gt_loaded.d.spread_halves)
    /\ pc' = "gt_f1"
    /\ UNCHANGED << gt_words, gt_loaded, vars_pad, vars_gadget, vars_table >>

GtF2 ==
    /\ pc = "gt_f1"
    /\ gt_result' = assign_f2(gt_loaded.b.spread_halves, gt_loaded.c.spread_halves,
                              gt_loaded.d.spread_halves)
    /\ pc' = "gt_f2"
    /\ UNCHANGED << gt_words, gt_loaded, vars_pad, vars_gadget, vars_table >>

GtF4 ==
    /\ pc = "gt_f2"
    /\ gt_result' = assign_f4(gt_loaded.b.spread_halves, gt_loaded.c.spread_halves,
                              gt_loaded.d.spread_halves)
    /\ pc' = "gt_f4"
    /\ UNCHANGED << gt_words, gt_loaded, vars_pad, vars_gadget, vars_table >>

GtF3 ==
    /\ pc = "gt_f4"
    /\ gt_result' = assign_f3(gt_loaded.b.spread_halves, gt_loaded.c.spread_halves,
                              gt_loaded.d.spread_halves)
    /\ pc' = "gt_f3"
    /\ UNCHANGED << gt_words, gt_loaded, vars_pad, vars_gadget, vars_table >>

GtF5 ==
    /\ pc = "gt_f3"
    /\ gt_result' = assign_f5(gt_loaded.b.spread_halves, gt_loaded.c.spread_halves,
                              gt_loaded.d.spread_halves)
    /\ pc' = "gt_f5"
    /\ UNCHANGED << gt_words, gt_loaded, vars_pad, vars_gadget, vars_table >>

\* rotate_left of b by 5, then 6, ... then 15
GtRotateLeft ==
    /\ pc \in {"gt_f5", "gt_rotate"}
    /\ LET shift == IF pc = "gt_f5" THEN 5 ELSE gt_result.shift + 1
       IN  /\ rotate_left_shift_ok(shift)
           /\ gt_result' = assign_rotate_left(gt_loaded.b.dense_halves, shift)
    /\ pc' = "gt_rotate"
    /\ UNCHANGED << gt_words, gt_loaded, vars_pad, vars_gadget, vars_table >>

GtSumAfxk ==
    /\ pc = "gt_rotate"
    /\ gt_result.shift = 15
    /\ gt_result' = assign_sum_afxk(gt_loaded.b.dense_halves, gt_loaded.c.dense_halves,
                                    gt_loaded.d.dense_halves, gt_words.k)
    /\ pc' = "gt_sum_afxk"
    /\ UNCHANGED << gt_words, gt_loaded, vars_pad, vars_gadget, vars_table >>

GtSumRe ==
    /\ pc = "gt_sum_afxk"
    /\ gt_result' = assign_sum_re(gt_loaded.b.dense_halves, gt_loaded.c.dense_halves)
    /\ pc' = "gt_sum_re"
    /\ UNCHANGED << gt_words, gt_loaded, vars_pad, vars_gadget, vars_table >>

GtSumCombineIlr ==
    /\ pc = "gt_sum_re"
    /\ gt_result' = assign_sum_combine_ilr(gt_loaded.b.dense_halves,
                                           gt_loaded.c.dense_halves,
                                           gt_loaded.d.dense_halves)
    /\ pc' = "gt_sum_combine_ilr"
    /\ UNCHANGED << gt_words, gt_loaded, vars_pad, vars_gadget, vars_table >>

NextGates ==
    \/ GtLoad
    \/ GtF1
    \/ GtF2
    \/ GtF4
    \/ GtF3
    \/ GtF5
    \/ GtRotateLeft
    \/ GtSumAfxk
    \/ GtSumRe
    \/ GtSumCombineIlr

SpecGates == InitGates /\ [][NextGates]_vars

(***************************************************************************)
(* Gadget run: Ripemd160TestCircuit::synthesize on one input.  The input   *)
(* is padded and cut into block words, RIPEMD160::new places the IV,       *)
(* update compresses the blocks in order, each compress call issuing the   *)
(* rounds Left then Right for idx 0..79 and then the combination, and      *)
(* finalize digests the state.                                             *)
(***************************************************************************)
NumInputs == 10

\* INPUTS_OUTPUTS: the inputs of the test fixture as bytes, each with the 20
\* bytes of the H160 listed with it
\*   ""                                             9c1185a5c5e9fc54612808977ee8f548b2258d31
\*   "abc"                                          8eb208f7e05d987a9b044a8e98c6b087f15a0bfc
\*   "abcdbcdecdefdefgefghfghighijhijkijkljklmklmnlmnomnopnopq"
\*                                                  12a053384a9c0c88e405a06c27dcf49ada62eb2b
\*   "abcdefghijklmnopqrstuvwxyz"                   f71c27109c692c1b56bbdceb5b9d2865b3708dbc
INPUTS_OUTPUTS ==
    << [input  |-> <<>>,
       output |-> << 156, 17, 133, 165, 197, 233, 252, 84, 97, 40, 8, 151, 126, 232, 245,
                    72, 178, 37, 141, 49 >>],
       [input  |-> << 97, 98, 99 >>,
       output |-> << 142, 178, 8, 247, 224, 93, 152, 122, 155, 4, 74, 142, 152, 198, 176,
                    135, 241, 90, 11, 252 >>],
       [input  |-> << 97, 98, 99, 100, 98, 99, 100, 101, 99, 100, 101, 102, 100, 101, 102,
                    103, 101, 102, 103, 104, 102, 103, 104, 105, 103, 104, 105, 106, 104,
                    105, 106, 107, 105, 106, 107, 108, 106, 107, 108, 109, 107, 108, 109,
                    110, 108, 109, 110, 111, 109, 110, 111, 112, 110, 111, 112, 113 >>,
       output |-> << 18, 160, 83, 56, 74, 156, 12, 136, 228, 5, 160, 108, 39, 220, 244,
                    154, 218, 98, 235, 43 >>],
       [input  |-> << 97, 98, 99, 100, 101, 102, 103, 104, 105, 106, 107, 108, 109, 110,
                    111, 112, 113, 114, 115, 116, 117, 118, 119, 120, 121, 122 >>,
       output |-> << 247, 28, 39, 16, 156, 105, 44, 27, 86, 187, 220, 235, 91, 157, 40,
                    101, 179, 112, 141, 188 >>] >>

\* sample inputs: the four inputs of the fixture, inputs of 55, 56, 57, 64,
\* 119 and 120 bytes around the block boundaries of the padding, and one of
\* a single byte
sample_inputs ==
    << INPUTS_OUTPUTS[1].input, INPUTS_OUTPUTS[2].input, INPUTS_OUTPUTS[3].input,
       INPUTS_OUTPUTS[4].input, sample_message(55), sample_message(56),
       sample_message(57), sample_message(64), sample_message(119),
       sample_message(120), sample_message(1) >>

InitGadget ==
    /\ pc = "g_start"
    /\ \E i \in 1..NumInputs : input = sample_inputs[i]
    /\ data = <<>>
    /\ hasher = <<>>
    /\ consumed = 0
    /\ locals = <<>>
    /\ last_call = <<>>
    /\ digest = <<>>
    /\ compressed = <<>>
    /\ failure = <<>>
    /\ PadIdle
    /\ GatesIdle
    /\ TableIdle

\* synthesize: preprocessing of the input
Preprocess ==
    /\ pc = "g_start"
    /\ data' = preprocess(input)
    /\ pc' = "g_new"
    /\ UNCHANGED << input, hasher, consumed, locals, last_call, digest, compressed,
                    failure, vars_pad, vars_gates, vars_table >>

\* RIPEMD160::new
New ==
    /\ pc = "g_new"
    /\ hasher' = init_vector
    /\ pc' = "g_update"
    /\ UNCHANGED << input, data, consumed, locals, last_call, digest, compressed,
                    failure, vars_pad, vars_gates, vars_table >>

\* update handing every block the IV state instead of the hasher state
CompressStart_from_iv ==
    /\ pc = "g_update"
    /\ consumed < Len(data)
    /\ locals' = [input             |-> data[consumed + 1],
                  initialized_state |-> init_vector,
                  w_halves          |-> MessageSchedule_process(data[consumed + 1])[2],
                  left_state        |-> init_vector,
                  right_state       |-> init_vector,
                  idx               |-> 0,
                  row               |-> 0]
    /\ pc' = "g_left"
    /\ UNCHANGED << input, data, hasher, consumed, last_call, digest, compressed,
                    failure, vars_pad, vars_gates, vars_table >>

\* update running its loop body once on a block of zero words when it is
\* given no block
CompressStart_once_without_blocks ==
    /\ pc = "g_update"
    /\ consumed < Len(data) \/ (Len(data) = 0 /\ consumed = 0 /\ compressed = <<>>)
    /\ LET block == IF Len(data) = 0
                        THEN array([i \in 1..BLOCK_SIZE |-> u32_of_halves(0, 0)])
                        ELSE data[consumed + 1]
       IN  locals' = [input             |-> block,
                      initialized_state |-> hasher,
                      w_halves          |-> MessageSchedule_process(block)[2],
                      left_state        |-> hasher,
                      right_state       |-> hasher,
                      idx               |-> 0,
                      row               |-> 0]
    /\ pc' = "g_left"
    /\ UNCHANGED << input, data, hasher, consumed, last_call, digest, compressed,
                    failure, vars_pad, vars_gates, vars_table >>

\* update takes the next block: Table16Chip::compress processes the message
\* schedule and CompressionConfig::compress starts both lanes from the
\* initialized state
CompressStart ==
    /\ pc = "g_update"
    /\ consumed < Len(data)
    /\ locals' = [input             |-> data[consumed + 1],
                  initialized_state |-> hasher,
                  w_halves          |-> MessageSchedule_process(data[consumed + 1])[2],
                  left_state        |-> hasher,
                  right_state       |-> hasher,
                  idx               |-> 0,
                  row               |-> 0]
    /\ pc' = "g_left"
    /\ UNCHANGED << input, data, hasher, consumed, last_call, digest, compressed,
                    failure, vars_pad, vars_gates, vars_table >>

\* compress: the Left round of idx; the run ends where assign_rotate_left
\* stops at its assertion on the shift
RoundLeft ==
    /\ pc = "g_left"
    /\ last_call' = [routine |-> "assign_round", state |-> locals.left_state,
                     result |-> assign_round(locals.idx, locals.left_state,
                                             locals.w_halves, locals.row, "Left")]
    /\ locals' = [locals EXCEPT !.left_state = last_call'.result.state,
                                !.row = last_call'.result.row]
    /\ pc' = IF last_call'.result.rol.asserted /\ last_call'.result.rol10_c_dense.asserted
                THEN "g_right" ELSE "g_panicked"
    /\ UNCHANGED << input, data, hasher, consumed, digest, compressed,
                    failure, vars_pad, vars_gates, vars_table >>

\* the Right round of idx run on the left lane: it takes the left lane
\* state and stores the state returned there
RoundRight_on_left_lane ==
    /\ pc = "g_right"
    /\ last_call' = [routine |-> "assign_round", state |-> locals.left_state,
                     result |-> assign_round(locals.idx, locals.left_state,
                                             locals.w_halves, locals.row, "Right")]
    /\ locals' = [locals EXCEPT !.left_state = last_call'.result.state,
                                !.row = last_call'.result.row,
                                !.idx = locals.idx + 1]
    /\ pc' = IF ~(last_call'.result.rol.asserted /\ last_call'.result.rol10_c_dense.asserted)
                THEN "g_panicked"
             ELSE IF locals.idx + 1 < ROUNDS THEN "g_left" ELSE "g_combine"
    /\ UNCHANGED << input, data, hasher, consumed, digest, compressed,
                    failure, vars_pad, vars_gates, vars_table >>

\* compress: the Right round of idx, and the step of the loop
RoundRight ==
    /\ pc = "g_right"
    /\ last_call' = [routine |-> "assign_round", state |-> locals.right_state,
                     result |-> assign_round(locals.idx, locals.right_state,
                                             locals.w_halves, locals.row, "Right")]
    /\ locals' = [locals EXCEPT !.right_state = last_call'.result.state,
                                !.row = last_call'.result.row,
                                !.idx = locals.idx + 1]
    /\ pc' = IF ~(last_call'.result.rol.asserted /\ last_call'.result.rol10_c_dense.asserted)
                THEN "g_panicked"
             ELSE IF locals.idx + 1 < ROUNDS THEN "g_left" ELSE "g_combine"
    /\ UNCHANGED << input, data, hasher, consumed, digest, compressed,
                    failure, vars_pad, vars_gates, vars_table >>

\* compress: the combination after the last round; compress returns and
\* update stores the state it returned
Combine ==
    /\ pc = "g_combine"
    /\ last_call' = [routine |-> "assign_combine_ilr",
                     state |-> locals.initialized_state,
                     left_state |-> locals.left_state,
                     right_state |-> locals.right_state,
                     result |-> assign_combine_ilr(locals.initialized_state,
                                                   locals.left_state,
                                                   locals.right_state, locals.row)]
    /\ hasher' = last_call'.result.state
    /\ compressed' = Append(compressed,
                            [initialized_state |-> locals.initialized_state,
                             input |-> locals.input,
                             returned |-> last_call'.result.state])
    /\ consumed' = consumed + 1
    /\ locals' = <<>>
    /\ pc' = "g_update"
    /\ UNCHANGED << input, data, digest, failure, vars_pad, vars_gates, vars_table >>

\* update returns after the last block and finalize digests the state
Finalize ==
    /\ pc = "g_update"
    /\ consumed = Len(data)
    /\ last_call' = [routine |-> "assign_digest", state |-> hasher,
                     result |-> assign_digest(hasher)]
    /\ digest' = Table16Chip_digest(hasher)
    /\ pc' = "g_done"
    /\ UNCHANGED << input, data, hasher, consumed, locals, compressed,
                    failure, vars_pad, vars_gates, vars_table >>

\* errors the framework may return from an assignment
framework_errors == {"Synthesis", "NotEnoughRowsAvailable"}

\* RIPEMD160::new when init_vector returns an error: new returns it, no
\* hasher is made, and RIPEMD160::digest returns it
NewFails ==
    /\ pc = "g_new"
    /\ \E e \in framework_errors :
            last_call' = [routine |-> "init_vector", error |-> e]
    /\ failure' = << last_call'.error >>
    /\ pc' = "g_failed"
    /\ UNCHANGED << input, data, hasher, consumed, locals, digest, compressed,
                    vars_pad, vars_gates, vars_table >>

\* update with the failed block passed over and the loop going on
CompressFails_block_skipped ==
    /\ \/ pc = "g_update" /\ consumed < Len(data)
       \/ pc \in {"g_left", "g_right", "g_combine"}
    /\ \E e \in framework_errors :
            last_call' = [routine |-> "compress", block |-> consumed + 1, error |-> e]
    /\ failure' = << last_call'.error >>
    /\ locals' = <<>>
    /\ consumed' = consumed + 1
    /\ pc' = "g_update"
    /\ UNCHANGED << input, data, hasher, digest, compressed,
                    vars_pad, vars_gates, vars_table >>

\* compress returns an error on the block in progress (from the message
\* schedule, a round or the combination): update returns it from inside its
\* loop, the state field keeps its value, and RIPEMD160::digest returns it
CompressFails ==
    /\ \/ pc = "g_update" /\ consumed < Len(data)
       \/ pc \in {"g_left", "g_right", "g_combine"}
    /\ \E e \in framework_errors :
            last_call' = [routine |-> "compress", block |-> consumed + 1, error |-> e]
    /\ failure' = << last_call'.error >>
    /\ locals' = <<>>
    /\ pc' = "g_failed"
    /\ UNCHANGED << input, data, hasher, consumed, digest, compressed,
                    vars_pad, vars_gates, vars_table >>

\* finalize when the chip's digest returns an error
FinalizeFails ==
    /\ pc = "g_update"
    /\ consumed = Len(data)
    /\ \E e \in framework_errors :
            last_call' = [routine |-> "digest", error |-> e]
    /\ failure' = << last_call'.error >>
    /\ pc' = "g_failed"
    /\ UNCHANGED << input, data, hasher, consumed, locals, digest, compressed,
                    vars_pad, vars_gates, vars_table >>

Next ==
    \/ Preprocess
    \/ New
    \/ NewFails
    \/ CompressStart
    \/ RoundLeft
    \/ RoundRight
    \/ Combine
    \/ CompressFails
    \/ Finalize
    \/ FinalizeFails

Spec == InitGadget /\ [][Next]_vars

(***************************************************************************)
(* Digest run: RIPEMD160::digest called on a list of blocks, as any caller *)
(* of the gadget may call it: new, update over the blocks given, finalize. *)
(* The lists are the empty one and the preprocessed blocks of the first    *)
(* two inputs of the fixture.                                              *)
(***************************************************************************)
sample_block_lists ==
    {<<>>, preprocess(INPUTS_OUTPUTS[1].input), preprocess(INPUTS_OUTPUTS[2].input)}

InitDigest ==
    /\ pc = "g_new"
    /\ input = <<>>
    /\ data \in sample_block_lists
    /\ hasher = <<>>
    /\ consumed = 0
    /\ locals = <<>>
    /\ last_call = <<>>
    /\ digest = <<>>
    /\ compressed = <<>>
    /\ failure = <<>>
    /\ PadIdle
    /\ GatesIdle
    /\ TableIdle

NextDigest ==
    \/ New
    \/ NewFails
    \/ CompressStart
    \/ RoundLeft
    \/ RoundRight
    \/ Combine
    \/ CompressFails
    \/ Finalize
    \/ FinalizeFails

SpecDigest == InitDigest /\ [][NextDigest]_vars

(***************************************************************************)
(* Table run: SpreadTableChip::load.  Each step is one iteration of its    *)
(* loop: the next row is taken from the generator and its three cells are  *)
(* assigned at the index.  A few input rows are looked up alongside: the   *)
(* run records which of them met a table row.                              *)
(***************************************************************************)
TABLE_ROWS == 65536

\* input rows (tag, dense, spread) for the lookup: the first and the last
\* value, 0x1234, 3 with spread 7 (bit 1 set), 0x1234 with bit 3 of its
\* spread set, dense 2^16, and 255 with tag 1
lookup_input_rows ==
    << << 0, 0, 0 >>,
       << 8, 65535, 1431655765 >>,
       << get_tag(4660), 4660, lebs2ip(spread_bits(i2lebsp(16, 4660))) >>,
       << 0, 3, 7 >>,
       << get_tag(4660), 4660, lebs2ip(spread_bits(i2lebsp(16, 4660))) + 8 >>,
       << 8, 65536, 0 >>,
       << 1, 255, 21845 >> >>

InitTable ==
    /\ pc = "tbl_loading"
    /\ table = [rows  |-> SpreadTableConfig_generate,
                index |-> 0,
                row   |-> <<>>,
                met   |-> {}]
    /\ PadIdle
    /\ GatesIdle
    /\ GadgetIdle

\* one iteration of the loop of load: row = rows.next(), unwrapped when the
\* cells are assigned; after the last index load returns
LoadRow ==
    /\ pc = "tbl_loading"
    /\ LET n == generate_next(table.rows)
       IN  IF n.item = <<>>
               THEN /\ table' = [table EXCEPT !.rows = n.rows, !.row = <<>>]
                    /\ pc' = "tbl_panicked"
               ELSE /\ table' = [rows  |-> n.rows,
                                 index |-> table.index + 1,
                                 row   |-> n.item[1],
                                 met   |-> table.met \cup
                                    {k \in 1..Len(lookup_input_rows) :
                                        lookup_meets(lookup_input_rows[k], n.item[1])}]
                    /\ pc' = IF table.index + 1 < TABLE_ROWS THEN "tbl_loading"
                                                             ELSE "tbl_loaded"
    /\ UNCHANGED << vars_pad, vars_gates, vars_gadget >>

SpecTable == InitTable /\ [][LoadRow]_vars

(***************************************************************************)
(* Claims                                                                  *)
(***************************************************************************)

\* the blocks of a list laid end to end
RECURSIVE concat_blocks(_, _)
concat_blocks(bs, k) ==
    IF k > Len(bs) THEN <<>> ELSE bs[k] \o concat_blocks(bs, k + 1)

\* C10: the blocks returned by pad_message_bytes, laid end to end, are the
\* message, then the byte 0x80, then k zero bytes for the least k >= 0
\* with n + 1 + k = 56 (mod 64), then the 8-byte little-endian encoding of
\* 8n (n below 2^21: three low bytes carry 8n, the other five are zero);
\* every block has 64 bytes and there are floor((n + 8) / 64) + 1 of them,
\* in both branches of the gap test.
C10_PadStructure ==
    pc = "padded" =>
        LET n    == Len(msg_bytes)
            k    == CHOOSE z \in 0..63 : (n + 1 + z) % 64 = 56
            flat == concat_blocks(blocks, 1)
            len8 == SubSeq(flat, n + 1 + k + 1, n + 1 + k + 8)
        IN  /\ \A j \in 1..Len(blocks) : Len(blocks[j]) = 64
            /\ Len(blocks) = ((n + 8) \div 64) + 1
            /\ Len(flat) = n + 1 + k + 8
            /\ SubSeq(flat, 1, n) = msg_bytes
            /\ flat[n + 1] = 128
            /\ \A j \in (n + 2)..(n + 1 + k) : flat[j] = 0
            /\ len8[1] + 256 * len8[2] + 65536 * len8[3] = 8 * n
            /\ \A j \in 4..8 : len8[j] = 0

\* C10 witness: a message whose padding takes the short-gap branch (the
\* 0x80 byte leaves fewer than 8 bytes in its block) has been padded into
\* one block more than the message occupies.
C10_Witness ==
    /\ pc = "padded"
    /\ Len(msg_bytes) = 60
    /\ Len(blocks) = 2
    /\ blocks[1][61] = 128
    /\ blocks[2][57] = 224

\* C11: pad_message_bytes never stops at its assertion on the padded length,
\* and what it returns is at least one block, every block of 64 bytes, a
\* multiple of 64 bytes in all, so the assertion of hash that the block list
\* is not empty holds too.
C11_PaddedLengthPositiveMultiple ==
    /\ pc # "pad_panicked"
    /\ pc = "padded" =>
            /\ Len(blocks) > 0
            /\ \A j \in 1..Len(blocks) : Len(blocks[j]) = BLOCK_SIZE_BYTES
            /\ Len(concat_blocks(blocks, 1)) % 64 = 0
            /\ Len(concat_blocks(blocks, 1)) >= Len(msg_bytes) + 9

\* C11 witness: the empty message has been padded into one block
C11_Witness ==
    /\ pc = "padded"
    /\ Len(msg_bytes) = 0
    /\ Len(blocks) = 1
    /\ blocks[1][1] = 128

\* the word of two 16-bit halves: lo + 2^16 * hi
recombine(halves) == halves[1] \o halves[2]

\* NOT, AND, OR, XOR of one bit
b_not(x) == 1 - x

b_and(x, y) == x * y

b_or(x, y) == IF x + y > 0 THEN 1 ELSE 0

b_xor(x, y) == (x + y) % 2

\* C3: for all words b, c, d the halves returned by assign_f1 .. assign_f5
\* are 16 bits each and recombine to b^c^d, (b&c)|(!b&d), (b|!c)^d,
\* (b&d)|(c&!d) and b^(c|!d); assign_f4 is the f2 routine on (d, b, c) and
\* assign_f5 the f3 routine on (c, d, b).
C3_RoundFunctionOutputs ==
    pc \in {"gt_f1", "gt_f2", "gt_f3", "gt_f4", "gt_f5"} =>
        LET b == gt_words.b
            c == gt_words.c
            d == gt_words.d
            r == recombine(gt_result.out)
        IN  /\ Len(gt_result.out[1]) = 16
            /\ Len(gt_result.out[2]) = 16
            /\ pc = "gt_f1" => \A i \in 1..32 : r[i] = b_xor(b_xor(b[i], c[i]), d[i])
            /\ pc = "gt_f2" =>
                    \A i \in 1..32 : r[i] = b_or(b_and(b[i], c[i]), b_and(b_not(b[i]), d[i]))
            /\ pc = "gt_f3" => \A i \in 1..32 : r[i] = b_xor(b_or(b[i], b_not(c[i])), d[i])
            /\ pc = "gt_f4" =>
                    /\ \A i \in 1..32 :
                            r[i] = b_or(b_and(b[i], d[i]), b_and(c[i], b_not(d[i])))
                    /\ gt_result = assign_f2(gt_loaded.d.spread_halves,
                                             gt_loaded.b.spread_halves,
                                             gt_loaded.c.spread_halves)
            /\ pc = "gt_f5" =>
                    /\ \A i \in 1..32 : r[i] = b_xor(b[i], b_or(c[i], b_not(d[i])))
                    /\ gt_result = assign_f3(gt_loaded.c.spread_halves,
                                             gt_loaded.d.spread_halves,
                                             gt_loaded.b.spread_halves)

\* f4(0x67452301, 0, 0x8F1BBCDC) = 0x07012000
C3_Witness ==
    /\ pc = "gt_f4"
    /\ gt_words.b = u32_of_halves(8961, 26437)
    /\ gt_words.c = u32_of_halves(0, 0)
    /\ gt_words.d = u32_of_halves(48348, 36635)
    /\ lebs2ip(gt_result.out[1]) = 8192
    /\ lebs2ip(gt_result.out[2]) = 1793

\* C4: for every shift s in 5..15 and every word w the cells placed by
\* assign_rotate_left satisfy the gate of that shift as configure applies it
\* (its range checks, its word_check and its rol_word_check on the cells it
\* queries), the word cells are the halves of w, and the returned halves
\* recombine to w rotated left by s: bit i of w is bit (i + s) mod 32 of
\* the result.
C4_RotateLeft ==
    pc = "gt_rotate" =>
        LET w == gt_words.b
            s == gt_result.shift
            r == recombine(gt_result.out)
        IN  /\ s \in 5..15
            /\ gt_result.word_lo \o gt_result.word_hi = w
            /\ Len(gt_result.chunks.c.dense) = 16
            /\ rotate_left_gate_on(gt_result)
            /\ Len(r) = 32
            /\ \A i \in 0..31 : r[((i + s) % 32) + 1] = w[i + 1]

\* the sum of the low halves and the sum of the high halves of some words
limb_sums(words) ==
    [lo |-> IF Len(words) = 2
                THEN lebs2ip(SubSeq(words[1], 1, 16)) + lebs2ip(SubSeq(words[2], 1, 16))
            ELSE IF Len(words) = 3
                THEN lebs2ip(SubSeq(words[1], 1, 16)) + lebs2ip(SubSeq(words[2], 1, 16))
                        + lebs2ip(SubSeq(words[3], 1, 16))
                ELSE lebs2ip(SubSeq(words[1], 1, 16)) + lebs2ip(SubSeq(words[2], 1, 16))
                        + lebs2ip(SubSeq(words[3], 1, 16)) + lebs2ip(SubSeq(words[4], 1, 16)),
     hi |-> IF Len(words) = 2
                THEN lebs2ip(SubSeq(words[1], 17, 32)) + lebs2ip(SubSeq(words[2], 17, 32))
            ELSE IF Len(words) = 3
                THEN lebs2ip(SubSeq(words[1], 17, 32)) + lebs2ip(SubSeq(words[2], 17, 32))
                        + lebs2ip(SubSeq(words[3], 17, 32))
                ELSE lebs2ip(SubSeq(words[1], 17, 32)) + lebs2ip(SubSeq(words[2], 17, 32))
                        + lebs2ip(SubSeq(words[3], 17, 32)) + lebs2ip(SubSeq(words[4], 17, 32))]

\* the sum halves and the carry cell are those of the integer sum of words:
\* with L and H the sums of the low and high halves, the sum is L + 2^16 * H,
\* its low 16 bits are L mod 2^16, its next 16 bits are (H + L div 2^16)
\* mod 2^16 and its floor by 2^32 is (H + L div 2^16) div 2^16; and the
\* equation of the sum gates holds of the cells
sum_cells_are(words, sum_halves, carry) ==
    LET t == limb_sums(words)
    IN  /\ lebs2ip(sum_halves[1]) = t.lo % 65536
        /\ lebs2ip(sum_halves[2]) = (t.hi + (t.lo \div 65536)) % 65536
        /\ carry = (t.hi + (t.lo \div 65536)) \div 65536
        /\ sum_check(F_of_bits(i2lebsp(20, t.lo)), F_of_bits(i2lebsp(20, t.hi)),
                     F_from(carry), F_of_bits(sum_halves[1]), F_of_bits(sum_halves[2]))

\* C5: the sum halves assigned by assign_sum_afxk (b, c, d and the constant
\* k), assign_sum_re (b, c) and assign_sum_combine_ilr (b, c, d) recombine
\* to the wrapping sum of the operands, the carry cell is the floor of the
\* integer sum by 2^32, and sum_of_lo + 2^16 * sum_of_hi
\* = sum_lo + 2^16 * sum_hi + carry * 2^32.
C5_SumsAndCarries ==
    LET b == gt_words.b
        c == gt_words.c
        d == gt_words.d
    IN  /\ pc = "gt_sum_afxk" =>
            /\ sum_cells_are(<< b, c, d, gt_words.k >>, gt_result.out, gt_result.carry)
            /\ recombine(gt_result.out)
                    = overflowing_add(overflowing_add(overflowing_add(b, c), d), gt_words.k)
        /\ pc = "gt_sum_re" =>
            /\ sum_cells_are(<< b, c >>, gt_result.out.dense_halves, gt_result.carry)
            /\ recombine(gt_result.out.dense_halves) = overflowing_add(b, c)
        /\ pc = "gt_sum_combine_ilr" =>
            /\ sum_cells_are(<< b, c, d >>, gt_result.out.dense_halves, gt_result.carry)
            /\ recombine(gt_result.out.dense_halves)
                    = overflowing_add(overflowing_add(b, c), d)

\* 0x67452301 + 0x8F1BBCDC + 0xFFFFFFFF + 0x8F1BBCDC = 2 * 2^32 + 0x857C9CB8
C5_Witness ==
    /\ pc = "gt_sum_afxk"
    /\ gt_words.b = u32_of_halves(8961, 26437)
    /\ gt_words.c = u32_of_halves(48348, 36635)
    /\ gt_words.d = u32_of_halves(65535, 65535)
    /\ gt_words.k = u32_of_halves(48348, 36635)
    /\ lebs2ip(gt_result.out[1]) = 40120
    /\ lebs2ip(gt_result.out[2]) = 34172
    /\ gt_result.carry = 2

\* the five words of a circuit state, each lo + 2^16 * hi of its dense halves
state_words(st) ==
    LET s == match_state(st)
    IN  [a |-> s[1][1] \o s[1][2],
         b |-> s[2].dense_halves[1] \o s[2].dense_halves[2],
         c |-> s[3].dense_halves[1] \o s[3].dense_halves[2],
         d |-> s[4].dense_halves[1] \o s[4].dense_halves[2],
         e |-> s[5][1] \o s[5][2]]

\* a word given by the values of its halves
word_is(word, lo, hi) ==
    /\ lebs2ip(SubSeq(word, 1, 16)) = lo
    /\ lebs2ip(SubSeq(word, 17, 32)) = hi

\* C1: for every input the gadget (init_vector, compress on each block of
\* the padded input in order, digest) yields five 32-bit words that are,
\* word for word, the 20 bytes of the reference hash of the input read as
\* five little-endian words.
C1_DigestIsReferenceHash ==
    pc = "g_done" =>
        LET h == hash(input)
        IN  /\ Len(digest) = 5
            /\ Len(h) = 20
            /\ \A i \in 1..5 :
                    digest[i] = u32_from_le_bytes(h[4 * i - 3], h[4 * i - 2],
                                                  h[4 * i - 1], h[4 * i])

\* the input of 120 bytes takes three blocks; its digest words are
\* 0xB9D10A14, 0xA5504956, 0xD62F467D, 0x807F9C7E, 0xD16C2ED2
C1_Witness ==
    /\ pc = "g_done"
    /\ Len(input) = 120
    /\ consumed = 3
    /\ word_is(digest[1], 2580, 47569)
    /\ word_is(digest[2], 18774, 42320)
    /\ word_is(digest[3], 18045, 54831)
    /\ word_is(digest[4], 40062, 32895)
    /\ word_is(digest[5], 11986, 53612)

\* C2: for every round index, either lane, every state reached and every
\* block, assign_round produces T = rol(A + f(B,C,D) + X + K, shift) + E and
\* the next state (E, T, B, rol(C, 10), D): the state the reference
\* left_step (Left) or right_step (Right) returns for the same index, state
\* and block.
C2_RoundIsReferenceStep ==
    (last_call # <<>> /\ last_call.routine = "assign_round") =>
        LET r    == last_call.result
            j    == r.round_idx
            left == r.round_side = "Left"
            s    == state_words(last_call.state)
            n    == state_words(r.state)
            f    == IF left THEN ROUND_FUNC_LEFT[(j \div 16) + 1]
                    ELSE ROUND_FUNC_RIGHT[(j \div 16) + 1]
            x    == IF left THEN locals.input[MSG_SEL_IDX_LEFT[j + 1] + 1]
                    ELSE locals.input[MSG_SEL_IDX_RIGHT[j + 1] + 1]
            k    == IF left THEN ROUND_CONSTANTS_LEFT[(j \div 16) + 1]
                    ELSE ROUND_CONSTANTS_RIGHT[(j \div 16) + 1]
            sh   == IF left THEN ROL_AMOUNT_LEFT[j + 1] ELSE ROL_AMOUNT_RIGHT[j + 1]
            t    == overflowing_add(
                        rol(overflowing_add(overflowing_add(overflowing_add(
                                s.a, apply_round_func(f, s.b, s.c, s.d)), x), k), sh),
                        s.e)
        IN  /\ j \in 0..79
            /\ recombine(r.t.out.dense_halves) = t
            /\ n = [a |-> s.e, b |-> t, c |-> s.b, d |-> rol(s.c, 10), e |-> s.d]
            /\ n = IF left THEN left_step(j, s, locals.input)
                   ELSE right_step(j, s, locals.input)

\* the last Right round on the block of "abc" returns
\* (0x81D4727D, 0x5FCCBADE, 0xBF627814, 0xFC0E2B04, 0x739C4C7A)
C2_Witness ==
    /\ pc = "g_combine"
    /\ input = << 97, 98, 99 >>
    /\ last_call.routine = "assign_round"
    /\ last_call.result.round_idx = 79
    /\ last_call.result.round_side = "Right"
    /\ word_is(state_words(last_call.result.state).a, 29309, 33236)
    /\ word_is(state_words(last_call.result.state).b, 47838, 24524)
    /\ word_is(state_words(last_call.result.state).c, 30740, 48994)
    /\ word_is(state_words(last_call.result.state).d, 11012, 64526)
    /\ word_is(state_words(last_call.result.state).e, 19578, 29596)

\* the words of a native state in the order A, B, C, D, E
in_order(s) == << s.a, s.b, s.c, s.d, s.e >>

\* C6: assign_combine_ilr computes, for every i in 0..4 in the order A..E,
\* next[i] = initial[(i+1) mod 5] + left[(i+2) mod 5] + right[(i+3) mod 5]
\* mod 2^32, the mapping of the reference combine_left_right_states.
C6_CombineIsReference ==
    (last_call # <<>> /\ last_call.routine = "assign_combine_ilr") =>
        LET initial == in_order(state_words(last_call.state))
            left    == in_order(state_words(last_call.left_state))
            right   == in_order(state_words(last_call.right_state))
            next    == in_order(state_words(last_call.result.state))
        IN  /\ \A i \in 0..4 :
                    next[i + 1] = overflowing_add(
                                      overflowing_add(initial[((i + 1) % 5) + 1],
                                                      left[((i + 2) % 5) + 1]),
                                      right[((i + 3) % 5) + 1])
            /\ state_words(last_call.result.state)
                    = combine_left_right_states(state_words(last_call.state),
                                                state_words(last_call.left_state),
                                                state_words(last_call.right_state))

\* the combination on the block of "abc": the lanes end with
\* A = 0x641129CA (Left) and A = 0x81D4727D (Right), and the state returned
\* starts with 0xF708B28E
C6_Witness ==
    /\ pc = "g_update"
    /\ input = << 97, 98, 99 >>
    /\ consumed = 1
    /\ last_call.routine = "assign_combine_ilr"
    /\ word_is(state_words(last_call.left_state).a, 10698, 25617)
    /\ word_is(state_words(last_call.right_state).a, 29309, 33236)
    /\ word_is(state_words(last_call.result.state).a, 45710, 63240)
    /\ word_is(state_words(last_call.result.state).e, 23281, 64523)

\* the name of round function n
f_name(n) == << "f1", "f2", "f3", "f4", "f5" >>[n]

\* C7: in round j, with phase = 1 + j div 16, assign_round applies f_phase
\* on the Left lane and f_(6 - phase) on the Right lane, the entry of
\* ROUND_FUNC_LEFT or ROUND_FUNC_RIGHT for j, and exactly one round function
\* per round and lane; its output is that function of B, C, D.
C7_RoundFunctionSelection ==
    (last_call # <<>> /\ last_call.routine = "assign_round") =>
        LET r     == last_call.result
            j     == r.round_idx
            phase == 1 + (j \div 16)
            s     == state_words(last_call.state)
        IN  /\ phase \in 1..5
            /\ Len(r.applied) = 1
            /\ r.round_side = "Left" =>
                    /\ r.applied[1] = f_name(phase)
                    /\ r.applied[1] = ROUND_FUNC_LEFT[(j \div ROUND_PHASE_SIZE) + 1]
            /\ r.round_side = "Right" =>
                    /\ r.applied[1] = f_name(6 - phase)
                    /\ r.applied[1] = ROUND_FUNC_RIGHT[(j \div ROUND_PHASE_SIZE) + 1]
            /\ recombine(r.fout.out) = apply_round_func(r.applied[1], s.b, s.c, s.d)

\* round 20 is in phase 2: the Right lane applies f4
C7_Witness ==
    /\ pc = "g_left"
    /\ locals.idx = 21
    /\ last_call.routine = "assign_round"
    /\ last_call.result.round_idx = 20
    /\ last_call.result.round_side = "Right"
    /\ last_call.result.applied = << "f4" >>

\* C8: new sets the hasher state to the IV state; update takes the blocks
\* in list order, block 1 with the IV state and block k+1 with the state
\* compress returned for block k; finalize digests the state returned for
\* the last block; and the states are those of the reference hash, which
\* chains get_compress_state over the same blocks from INITIAL_VALUES.
C8_ChainsBlocksInOrder ==
    /\ (pc = "g_update" /\ consumed = 0) => hasher = init_vector
    /\ Len(compressed) = consumed
    /\ \A k \in 1..Len(compressed) :
            /\ compressed[k].input = data[k]
            /\ compressed[k].initialized_state
                    = IF k = 1 THEN init_vector ELSE compressed[k - 1].returned
    /\ (consumed > 0 /\ pc # "g_done") => hasher = compressed[consumed].returned
    /\ locals # <<>> =>
            /\ locals.input = data[consumed + 1]
            /\ locals.initialized_state = hasher
    /\ pc = "g_done" =>
            /\ consumed = Len(data)
            /\ last_call.routine = "assign_digest"
            /\ last_call.state = compressed[consumed].returned
            /\ state_words(init_vector) = State_from(INITIAL_VALUES)
            /\ \A k \in 1..Len(compressed) :
                    state_words(compressed[k].returned)
                        = get_compress_state(state_words(compressed[k].initialized_state),
                                             data[k])

\* the input of 120 bytes: three blocks, the second and third compressed
\* from the state returned for the block before, none of them the IV state
C8_Witness ==
    /\ pc = "g_done"
    /\ Len(input) = 120
    /\ Len(compressed) = 3
    /\ compressed[2].initialized_state = compressed[1].returned
    /\ compressed[3].initialized_state = compressed[2].returned
    /\ compressed[1].returned # init_vector
    /\ compressed[2].returned # compressed[1].returned
    /\ last_call.state = compressed[3].returned

\* C9: digest returns exactly five words in the order A, B, C, D, E, each
\* lo + 2^16 * hi of the dense halves of that state word with nothing else
\* applied, and the state it was given is the hasher state, unchanged.
C9_DigestWords ==
    pc = "g_done" =>
        LET s == match_state(last_call.state)
            dense == << s[1], s[2].dense_halves, s[3].dense_halves,
                        s[4].dense_halves, s[5] >>
        IN  /\ Len(digest) = 5
            /\ \A i \in 1..5 :
                    /\ Len(digest[i]) = 32
                    /\ word_is(digest[i], value_u16(dense[i][1]), value_u16(dense[i][2]))
            /\ hasher = last_call.state
            /\ hasher = compressed[consumed].returned

\* the digest of the empty input: 0xA585119C, 0x54FCE9C5, ..., read off the
\* state 9c1185a5 c5e9fc54 61280897 7ee8f548 b2258d31
C9_Witness ==
    /\ pc = "g_done"
    /\ input = <<>>
    /\ word_is(digest[1], 4508, 42373)
    /\ word_is(digest[2], 59845, 21756)
    /\ word_is(digest[3], 10337, 38664)
    /\ word_is(digest[4], 59518, 18677)
    /\ word_is(digest[5], 9650, 12685)
    /\ word_is(state_words(hasher).d, 59518, 18677)

\* C12: for each input of the fixture INPUTS_OUTPUTS, the reference hash of
\* the input is the 20 bytes listed with it (9c1185a5...2258d31 for the
\* empty message), and the five words the gadget returns are those bytes
\* read as little-endian words, the comparison synthesize asserts.
C12_FixtureDigests ==
    pc = "g_done" =>
        \A k \in 1..Len(INPUTS_OUTPUTS) :
            input = INPUTS_OUTPUTS[k].input =>
                LET output == INPUTS_OUTPUTS[k].output
                IN  /\ Len(output) = DIGEST_SIZE_BYTES
                    /\ hash(input) = output
                    /\ Len(digest) = DIGEST_SIZE
                    /\ \A i \in 1..DIGEST_SIZE :
                            digest[i] = u32_from_le_bytes(output[4 * i - 3], output[4 * i - 2],
                                                          output[4 * i - 1], output[4 * i])

\* C12 witness: the empty input has been digested; the first word is
\* 0xa585119c, the bytes 9c 11 85 a5 read little-endian
C12_Witness ==
    /\ pc = "g_done"
    /\ input = <<>>
    /\ word_is(digest[1], 4508, 42373)
    /\ hash(<<>>)[1] = 156
    /\ hash(<<>>)[20] = 49

\* C13: load assigns exactly 2^16 rows and never runs out of generated rows,
\* and the row assigned at index i is (get_tag(i), i, spread(i)), spread(i)
\* having bit b of i at bit 2b and zeros elsewhere: the tag, dense and
\* spread of SpreadWord::new on the 16 bits of i.
C13_TableRows ==
    /\ pc # "tbl_panicked"
    /\ pc \in {"tbl_loading", "tbl_loaded"} =>
            /\ table.index <= 65536
            /\ (pc = "tbl_loaded") = (table.index = 65536)
            /\ table.index > 0 =>
                    LET i    == table.index - 1
                        word == SpreadWord_new(i2lebsp(16, i))
                    IN  /\ table.row[1] = word.tag
                        /\ table.row[2] = i
                        /\ table.row[2] = lebs2ip(word.dense)
                        /\ table.row[3] = lebs2ip(word.spread)
                        /\ \A b \in 0..15 :
                                (table.row[3] \div (2 ^ (2 * b))) % 4 = (i \div (2 ^ b)) % 2

\* C13 witness: the last row, (8, 0xFFFF, 0x55555555), has been assigned
\* and load has returned
C13_Witness ==
    /\ pc = "tbl_loaded"
    /\ table.index = 65536
    /\ table.row = << 8, 65535, 1431655765 >>

\* C14: for every 16-bit value d (the dense cell of each table row),
\* get_tag(d) is in 0..8, is not below get_tag(d - 1), and for every t in
\* 0..7, get_tag(d) <= t exactly when d < 2^(8 + t); so the tag range check
\* 0..t of a rotation gate admits the tag of d exactly when d < 2^(8 + t).
C14_TagStepFunction ==
    (pc \in {"tbl_loading", "tbl_loaded"} /\ table.index > 0) =>
        LET d == table.row[2]
        IN  /\ d \in 0..65535
            /\ get_tag(d) \in 0..8
            /\ d > 0 => get_tag(d - 1) <= get_tag(d)
            /\ \A t \in 0..7 :
                    /\ (get_tag(d) <= t) = (d < 2 ^ (8 + t))
                    /\ Gate_range_check(F_from(get_tag(d)), 0, t) = (d < 2 ^ (8 + t))
            /\ (get_tag(d) = 8) = (d >= 32768)

\* C14 witness: the row of 0x8000, the first value of tag 8, follows the
\* row of 0x7FFF of tag 7
C14_Witness ==
    /\ pc = "tbl_loading"
    /\ table.index = 32769
    /\ table.row[2] = 32768
    /\ get_tag(table.row[2]) = 8
    /\ get_tag(table.row[2] - 1) = 7

\* the 32 little-endian bits of a spread cell (a value below 2^31)
spread_cell_bits(v) == i2lebsp(31, v) \o << 0 >>

\* an input row no table row may equal: a bit of its spread in an odd
\* position, or its dense value 2^16 or more
malformed_input_row(input_row) ==
    \/ \E b \in 1..16 : spread_cell_bits(input_row[3])[2 * b] = 1
    \/ input_row[2] >= 65536

\* C15: in every table row the dense value is below 2^16, every bit of the
\* spread in an odd position is zero and the bits in the even positions are
\* the dense value again, so two rows with the same spread have the same
\* dense value; and once the table is loaded no looked-up row with a spread
\* bit in an odd position or with a dense value of 2^16 or more has met a
\* table row, while the well-formed rows for 0, 0x1234 and 0xFFFF have.
C15_SpreadInjectiveAndLookupRejects ==
    /\ (pc \in {"tbl_loading", "tbl_loaded"} /\ table.index > 0) =>
            /\ table.row[2] < 65536
            /\ \A b \in 1..16 : odd_bits(spread_cell_bits(table.row[3]))[b] = 0
            /\ lebs2ip(even_bits(spread_cell_bits(table.row[3]))) = table.row[2]
            /\ \A k \in table.met : ~malformed_input_row(lookup_input_rows[k])
    /\ pc = "tbl_loaded" => table.met = {1, 2, 3}

\* C15 witness: the table is loaded, the looked-up rows with spread 7 for
\* dense 3 and with dense 2^16 are among those that met no table row
C15_Witness ==
    /\ pc = "tbl_loaded"
    /\ malformed_input_row(lookup_input_rows[4])
    /\ malformed_input_row(lookup_input_rows[5])
    /\ malformed_input_row(lookup_input_rows[6])
    /\ {4, 5, 6} \cap table.met = {}
    /\ 3 \in table.met

\* the cell of a 16-bit half, as a field element
half_cell(bits) == F_of_bits(bits)

\* C16: in every round of either lane, the cells assign_sum_afxk placed for
\* A + F + X + K satisfy the sum_afxk gate: the carry cell holds the overflow
\* count that makes the sum equation hold, and that count is within the
\* range 0..2 the gate checks for the cell.
C16_AfxkCarryInGateRange ==
    (last_call # <<>> /\ last_call.routine = "assign_round") =>
        LET s == last_call.result.sum_afxk
        IN  sum_afxk_gate(half_cell(s.out[1]), half_cell(s.out[2]), F_from(s.carry),
                          half_cell(s.operands[1][1]), half_cell(s.operands[1][2]),
                          half_cell(s.operands[2][1]), half_cell(s.operands[2][2]),
                          half_cell(s.operands[3][1]), half_cell(s.operands[3][2]),
                          half_cell(s.operands[4][1]), half_cell(s.operands[4][2]))

\* C17: after the last round, the cells assign_sum_combine_ilr placed for
\* each of the five three-operand sums satisfy the sum_combine_ilr gate: the
\* carry cell, an overflow count of 0, 1 or 2, passes the range check of the
\* gate.
C17_CombineCarryInGateRange ==
    (last_call # <<>> /\ last_call.routine = "assign_combine_ilr") =>
        \A i \in 1..5 :
            LET s == last_call.result.sums[i]
            IN  sum_combine_ilr(half_cell(s.out.dense_halves[1]),
                                half_cell(s.out.dense_halves[2]), F_from(s.carry),
                                half_cell(s.operands[1][1]), half_cell(s.operands[1][2]),
                                half_cell(s.operands[2][1]), half_cell(s.operands[2][2]),
                                half_cell(s.operands[3][1]), half_cell(s.operands[3][2]))

\* C18: an error ends the run where it arises.  Once a stage has returned
\* an error, RIPEMD160::digest has returned that same error and nothing
\* else has run: no digest, no compress call in progress, the blocks
\* compressed are those before the failing one, and the state field is the
\* state returned for the block before it (the IV state when the first
\* block fails, no hasher at all when init_vector fails).  A run that
\* reaches its digest has met no error.
C18_ErrorsPropagate ==
    /\ failure # <<>> => pc = "g_failed"
    /\ pc = "g_done" => failure = <<>>
    /\ pc = "g_failed" =>
            /\ failure[1] \in framework_errors
            /\ failure[1] = last_call.error
            /\ digest = <<>>
            /\ locals = <<>>
            /\ Len(compressed) = consumed
            /\ last_call.routine = "init_vector" =>
                    hasher = <<>> /\ consumed = 0
            /\ last_call.routine = "compress" =>
                    /\ last_call.block = consumed + 1
                    /\ consumed < Len(data)
                    /\ hasher = IF consumed = 0 THEN init_vector
                                                ELSE compressed[consumed].returned
            /\ last_call.routine = "digest" =>
                    /\ consumed = Len(data)
                    /\ hasher = compressed[consumed].returned

\* C18 witness: compress failed on the second of three blocks; the state
\* field is the state returned for the first block
C18_Witness ==
    /\ pc = "g_failed"
    /\ failure = << "Synthesis" >>
    /\ last_call.routine = "compress"
    /\ last_call.block = 2
    /\ Len(data) = 3
    /\ consumed = 1
    /\ hasher = compressed[1].returned
    /\ hasher # init_vector

\* a word w and the dense halves (lo, hi) loaded for it: lo holds the low
\* 16 bits of w and hi the high 16 bits, value() of (lo, hi) is w, the
\* decompose-word gate holds of the cells lo, hi, word, and each half was
\* placed as the lookup row (get_tag(half), half, spread(half))
loaded_halves_of(w, lo, hi) ==
    /\ Len(lo) = 16 /\ Len(hi) = 16
    /\ \A b \in 1..16 : lo[b] = w[b] /\ hi[b] = w[16 + b]
    /\ RoundWordDense_value(<< lo, hi >>) = w
    /\ Gate_s_decompose_word(F_of_bits(lo), F_of_bits(hi), F_of_bits(w))
    /\ \A k \in 1..2 :
            LET var  == assign_word_and_halves(w)[2][k]
                half == << lo, hi >>[k]
            IN  /\ var.dense = half
                /\ lebs2ip(half) < 65536
                /\ var.tag = get_tag(lebs2ip(half))
                /\ \A b \in 1..16 : var.spread[2 * b - 1] = half[b] /\ var.spread[2 * b] = 0

\* C19: every word loaded by assign_word_and_halves, the five IV words of
\* the state new placed and the sixteen message words of the block being
\* compressed, has its halves lo = w mod 2^16 and hi = w div 2^16 assigned,
\* each below 2^16 and placed with a lookup row, with
\* RoundWordDense::value(lo, hi) = w and lo + 2^16 * hi = word.
C19_WordAndHalves ==
    /\ (pc = "g_update" /\ consumed = 0) =>
            LET s == match_state(hasher)
            IN  /\ loaded_halves_of(INITIAL_VALUES[1], s[1][1], s[1][2])
                /\ \A i \in 2..4 :
                        /\ loaded_halves_of(INITIAL_VALUES[i], s[i].dense_halves[1],
                                            s[i].dense_halves[2])
                        /\ s[i].spread_halves[1] = spread_bits(s[i].dense_halves[1])
                        /\ s[i].spread_halves[2] = spread_bits(s[i].dense_halves[2])
                /\ loaded_halves_of(INITIAL_VALUES[5], s[5][1], s[5][2])
    /\ pc \in {"g_left", "g_right", "g_combine"} =>
            \A i \in 1..BLOCK_SIZE :
                loaded_halves_of(locals.input[i], locals.w_halves[i][1],
                                 locals.w_halves[i][2])

\* C19 witness: the first block of "abc" is loaded; its first word
\* 0x80636261 has the halves 0x6261 and 0x8063
C19_Witness ==
    /\ pc = "g_left"
    /\ input = << 97, 98, 99 >>
    /\ locals.idx = 0
    /\ lebs2ip(locals.w_halves[1][1]) = 25185
    /\ lebs2ip(locals.w_halves[1][2]) = 32867
    /\ RoundWordDense_value(locals.w_halves[1]) = locals.input[1]

\* C20: no round stops at the assertion shift > 4 /\ shift < 16 of
\* assign_rotate_left.  In every round of either lane the amount taken from
\* the schedule is in 5..15, it is the amount the reference step passes to
\* rol for that round (never 0, below 16), the selector index shift - 5 is
\* within the 11 rotation selectors, and C is rotated by 10, selector 5.
C20_RotationAmounts ==
    /\ pc # "g_panicked"
    /\ (last_call # <<>> /\ last_call.routine = "assign_round") =>
            LET r == last_call.result
            IN  /\ r.rol_shift \in 5..15
                /\ r.rol_shift = IF r.round_side = "Left"
                                     THEN ROL_AMOUNT_LEFT[r.round_idx + 1]
                                     ELSE ROL_AMOUNT_RIGHT[r.round_idx + 1]
                /\ r.rol.shift = r.rol_shift
                /\ r.rol.asserted
                /\ r.rol.selector \in 0..10
                /\ r.rol10_c_dense.shift = 10
                /\ r.rol10_c_dense.asserted
                /\ r.rol10_c_dense.selector = 5

\* C20 witness: round 4 of the Left lane rotates by 5, the least amount,
\* with the first rotation selector, and round 2 by 15, with the last
C20_Witness ==
    /\ pc = "g_right"
    /\ last_call.routine = "assign_round"
    /\ last_call.result.round_idx = 4
    /\ last_call.result.round_side = "Left"
    /\ last_call.result.rol.shift = 5
    /\ last_call.result.rol.selector = 0
    /\ round_rol_shift(2, "Left") = 15

\* the selector each routine has to enable at its row for the gate that
\* constrains what it places
gate_selector_of(routine) ==
    CASE routine = "f1" -> "s_f1"
      [] routine \in {"f2", "f4"} -> "s_f2f4"
      [] routine \in {"f3", "f5"} -> "s_f3f5"
      [] routine = "rotate_left" -> "s_rotate_left"
      [] routine = "sum_afxk" -> "s_sum_afxk"
      [] routine = "sum_re" -> "s_sum_re"
      [] routine = "sum_combine_ilr" -> "s_sum_combine_ilr"

\* C21: every assignment routine of a round and of the combination enables
\* the selector of its gate at the row where it places its cells; in
\* particular each call of assign_sum_afxk, assign_sum_re and
\* assign_sum_combine_ilr enables s_sum_afxk, s_sum_re and s_sum_combine_ilr
\* at its row, as the round functions and the rotations enable theirs.
C21_SumSelectorsEnabled ==
    /\ (last_call # <<>> /\ last_call.routine = "assign_round") =>
            LET placed == assign_round_placements(last_call.result)
            IN  \A i \in 1..5 :
                    << gate_selector_of(placed[i].routine), placed[i].row >>
                        \in placed[i].enabled
    /\ (last_call # <<>> /\ last_call.routine = "assign_combine_ilr") =>
            LET placed == assign_combine_ilr_placements(last_call.result)
            IN  \A i \in 1..5 :
                    << gate_selector_of(placed[i].routine), placed[i].row >>
                        \in placed[i].enabled

\* C22: the two output halves of the round function routine of every round
\* are cells of the dense lookup column a_1, at rows the routine placed
\* through the spread table lookup, and hold the dense value looked up
\* there; these are the cells handed to assign_sum_afxk as the F operand.
C22_RoundFunctionOutputsLookedUp ==
    (last_call # <<>> /\ last_call.routine = "assign_round") =>
        LET r    == last_call.result
            fout == r.fout
        IN  /\ r.sum_afxk.operands[2] = fout.out
            /\ \A i \in 1..2 :
                    /\ fout.out_cells[i][1] = "a_1"
                    /\ fout.out_cells[i][2] \in fout.lookup_rows
                    /\ fout.out[i] = fout.lookup[fout.out_cells[i][2] + 1].dense

\* the values a chunk is bounded to by its check: below 2^16 by the lookup,
\* below 2^(8 + t) by a tag of at most t, at most the bound of a range check
chunk_range(ch) ==
    CASE ch.kind = "lookup" -> 65536
      [] ch.kind = "tag"    -> 2 ^ (8 + ch.bound)
      [] OTHER              -> ch.bound + 1

\* the width of a chunk whose range is a power of two, 17 otherwise
chunk_width(ch) ==
    IF \E w \in 0..16 : 2 ^ w = chunk_range(ch)
    THEN CHOOSE w \in 0..16 : 2 ^ w = chunk_range(ch)
    ELSE 17

\* the chunks as assign_rotate_left placed them, as integers in gate order
placed_chunk_values(r) ==
    LET L == rotate_left_gate_chunks(r.shift)
    IN  [i \in 1..Len(L) |->
            IF L[i].kind = "range" THEN lebs2ip(r.chunks[L[i].cell])
            ELSE lebs2ip(r.chunks[L[i].cell].dense)]

\* the chunks scaled as word_check (which = "word") or rol_word_check
\* (which = "rol") scales them and summed, from chunk k on
RECURSIVE scaled_chunk_sum(_, _, _, _)
scaled_chunk_sum(L, vals, which, k) ==
    IF k > Len(L) THEN F_from(0)
    ELSE F_add(F_mul_pow2(F_from(vals[k]),
                          IF which = "word" THEN L[k].word_shift ELSE L[k].rol_shift),
               scaled_chunk_sum(L, vals, which, k + 1))

\* the chunk cells of a rotate gate holding the chunk values vals, the tag
\* cell of a looked-up chunk holding the tag of its value
gate_cells_with(shift, vals) ==
    LET L == rotate_left_gate_chunks(shift)
    IN  [shift  |-> shift,
         chunks |-> [n \in {L[i].cell : i \in 1..Len(L)} |->
                        LET i == CHOOSE j \in 1..Len(L) : L[j].cell = n
                        IN  IF L[i].kind = "range" THEN i2lebsp(16, vals[i])
                            ELSE [dense |-> i2lebsp(16, vals[i]),
                                  tag   |-> get_tag(vals[i])]]]

\* a field element split as lo + 2^16 * hi with lo below 2^16
low_half(x) == F_from(x[1])

high_half(x) == SubSeq(x, 2, 16) \o << 0 >>

\* the rotate gate of shift on the chunk values vals with the word cells
\* holding the halves of word and the rotated word cells those of rol_word
gate_holds_with(shift, vals, word, rol_word) ==
    rotate_left_gate_with(gate_cells_with(shift, vals), low_half(word), high_half(word),
                          low_half(rol_word), high_half(rol_word))

\* the 32-bit word w rotated left by k: bit i of w is bit (i + k) mod 32
rotated_left(w, k) == array([i \in 1..32 |-> w[((i + 63 - k) % 32) + 1]])

\* C23: for every shift s in 5..15 the chunks of the rotate gate have ranges
\* that are powers of two, as wide as the gap to the next chunk in
\* word_check, covering bits 0..31 without overlap (widths summing to 32);
\* rol_word_check places each chunk s bits higher, cyclically, again without
\* overlap; the gate admits a value in a chunk exactly when it is below
\* 2^width; the placed chunks are the bits of the word at their positions;
\* moving one unit of a chunk into its lower neighbour (the same word_check
\* sum) is rejected; and of the rotations of the word by 0, s - 1, s, s + 1
\* and 32 - s only those equal to the one by s satisfy rol_word_check with
\* the placed chunks.
C23_RotationChunksPartitionWord ==
    pc = "gt_rotate" =>
        LET s    == gt_result.shift
            w    == gt_words.b
            L    == rotate_left_gate_chunks(s)
            n    == Len(L)
            vals == placed_chunk_values(gt_result)
        IN  /\ \A i \in 1..n : chunk_width(L[i]) <= 16
            /\ L[1].word_shift = 0
            /\ \A i \in 1..(n - 1) :
                    L[i + 1].word_shift = L[i].word_shift + chunk_width(L[i])
            /\ L[n].word_shift + chunk_width(L[n]) = 32
            /\ \A i \in 1..n :
                    /\ L[i].rol_shift = (L[i].word_shift + s) % 32
                    /\ L[i].rol_shift + chunk_width(L[i]) <= 32
            /\ \A i \in 1..n :
                    vals[i] = lebs2ip(SubSeq(w, L[i].word_shift + 1,
                                             L[i].word_shift + chunk_width(L[i])))
            /\ rotate_left_gate_with(gt_result,
                        F_of_bits(gt_result.word_lo), F_of_bits(gt_result.word_hi),
                        F_of_bits(gt_result.rol_word_lo), F_of_bits(gt_result.rol_word_hi))
            /\ \A i \in 1..n :
                    \A v \in {0, chunk_range(L[i]) - 1}
                                \cup (IF L[i].kind = "lookup" THEN {}
                                      ELSE {chunk_range(L[i])}) :
                        LET alt == [vals EXCEPT ![i] = v]
                        IN  gate_holds_with(s, alt, scaled_chunk_sum(L, alt, "word", 1),
                                            scaled_chunk_sum(L, alt, "rol", 1))
                            <=> v < chunk_range(L[i])
            /\ \A i \in 2..(n - 1) :
                    vals[i + 1] > 0 =>
                        LET alt == [vals EXCEPT ![i] = vals[i] + chunk_range(L[i]),
                                                ![i + 1] = vals[i + 1] - 1]
                        IN  /\ scaled_chunk_sum(L, alt, "word", 1) = F_of_bits(w)
                            /\ ~gate_holds_with(s, alt, F_of_bits(w),
                                                scaled_chunk_sum(L, alt, "rol", 1))
            /\ \A k \in {0, s - 1, s, s + 1, 32 - s} :
                    gate_holds_with(s, vals, F_of_bits(w), F_of_bits(rotated_left(w, k)))
                    <=> rotated_left(w, k) = rol(w, s)

\* the gate of shift 7 on 0x67452301: the chunks are c = 0x2301, b = 0x145
\* (9 bits), a_lo = 3 and a_hi = 6
C23_Witness ==
    /\ pc = "gt_rotate"
    /\ gt_result.shift = 7
    /\ gt_words.b = u32_of_halves(8961, 26437)
    /\ placed_chunk_values(gt_result) = << 8961, 325, 3, 6 >>
    /\ rotate_left_gate_with(gt_result,
            F_of_bits(gt_result.word_lo), F_of_bits(gt_result.word_hi),
            F_of_bits(gt_result.rol_word_lo), F_of_bits(gt_result.rol_word_hi))

\* C24: in every round each routine copies the words handed to it by the
\* routine before it into its own cells: the sum A + F + X + K copies A, the
\* round function output and the message word, the rotation copies the sum,
\* T = rol + E copies the rotated word and E, the rotation of C by 10 copies
\* C, and the conversion that gives the next rounds the dense and spread
\* halves of D' copies both halves of that rotation's output
C24_HandedWordsCopied ==
    (last_call # <<>> /\ last_call.routine = "assign_round") =>
        LET r == last_call.result
        IN  /\ SubSeq(r.sum_afxk.operands, 1, 3) = << r.a, r.fout.out, r.x >>
            /\ {"a_lo", "a_hi", "f_lo", "f_hi", "x_lo", "x_hi"} \subseteq r.sum_afxk.copied
            /\ {"word_lo", "word_hi"} \subseteq r.rol.copied
            /\ {"rol_lo", "rol_hi", "e_lo", "e_hi"} \subseteq r.t.copied
            /\ {"word_lo", "word_hi"} \subseteq r.rol10_c_dense.copied
            /\ r.state.d[1].word = r.rol10_c.out
            /\ {"word_lo", "word_hi"} \subseteq r.rol10_c.copied

\* the rows the calls of placed write (in the advice column and in the
\* lookup columns) all lie below the row at which the next call starts,
\* and those of the last call below the row counter left at end_row
rows_below_next_start(placed, end_row) ==
    \A i \in 1..Len(placed) :
        \A w \in placed[i].advice_rows \cup placed[i].lookup_rows :
            w < (IF i < Len(placed) THEN placed[i + 1].row ELSE end_row)

\* C25: with the row counter advanced as assign_round advances it (by the
\* rows of the round function, 3, 6, 2, 6, 2) and as assign_combine_ilr
\* advances it (3 per sum), every routine starts at the counter left by the
\* one before it and the rows it writes all lie below the row at which the
\* next routine starts, so no cell is written by two routines
C25_RoutinesWriteDisjointRows ==
    /\ (last_call # <<>> /\ last_call.routine = "assign_round") =>
            LET r      == last_call.result
                placed == assign_round_placements(r)
            IN  /\ \A i \in 1..5 : placed[i].row < placed[i + 1].row
                /\ r.row = placed[6].row + 2
                /\ rows_below_next_start(placed, r.row)
    /\ (last_call # <<>> /\ last_call.routine = "assign_combine_ilr") =>
            LET r      == last_call.result
                placed == assign_combine_ilr_placements(r)
            IN  /\ \A i \in 1..4 : placed[i + 1].row = placed[i].row + 3
                /\ r.row = placed[5].row + 3
                /\ rows_below_next_start(placed, r.row)

\* one step of compress seen from its locals: the start, a round of either
\* lane, the combination
compress_step_keeps_lanes_apart ==
    /\ (pc = "g_update" /\ pc' = "g_left") =>
            /\ locals'.initialized_state = hasher
            /\ locals'.left_state = locals'.initialized_state
            /\ locals'.right_state = locals'.initialized_state
            /\ locals'.idx = 0
    /\ (pc = "g_left" /\ pc' \in {"g_right", "g_panicked"}) =>
            /\ last_call'.routine = "assign_round"
            /\ last_call'.state = locals.left_state
            /\ last_call'.result.round_side = "Left"
            /\ last_call'.result.round_idx = locals.idx
            /\ last_call'.result.state =
                    assign_round(locals.idx, locals.left_state, locals.w_halves,
                                 locals.row, "Left").state
            /\ locals'.left_state = last_call'.result.state
            /\ locals'.right_state = locals.right_state
            /\ locals'.initialized_state = locals.initialized_state
            /\ locals'.w_halves = locals.w_halves
            /\ locals'.idx = locals.idx
            /\ pc' = "g_right"
    /\ (pc = "g_right" /\ pc' \in {"g_left", "g_combine", "g_panicked"}) =>
            /\ last_call'.routine = "assign_round"
            /\ last_call'.state = locals.right_state
            /\ last_call'.result.round_side = "Right"
            /\ last_call'.result.round_idx = locals.idx
            /\ last_call'.result.state =
                    assign_round(locals.idx, locals.right_state, locals.w_halves,
                                 locals.row, "Right").state
            /\ locals'.right_state = last_call'.result.state
            /\ locals'.left_state = locals.left_state
            /\ locals'.initialized_state = locals.initialized_state
            /\ locals'.w_halves = locals.w_halves
            /\ locals'.idx = locals.idx + 1
            /\ pc' = (IF locals.idx < ROUNDS - 1 THEN "g_left" ELSE "g_combine")
    /\ (pc = "g_combine" /\ pc' = "g_update") =>
            /\ locals.idx = ROUNDS
            /\ locals.initialized_state = hasher
            /\ last_call'.routine = "assign_combine_ilr"
            /\ last_call'.state = locals.initialized_state
            /\ last_call'.left_state = locals.left_state
            /\ last_call'.right_state = locals.right_state
            /\ last_call'.result.state =
                    assign_combine_ilr(locals.initialized_state, locals.left_state,
                                       locals.right_state, locals.row).state

\* C26: compress starts both lanes from the initialized state; the Left
\* round of idx takes the left lane state and replaces only it, the Right
\* round of idx follows it, takes the right lane state and replaces only it,
\* and then idx advances; no round changes the initialized state or the
\* message word halves; after the Right round of idx 79 the combination takes
\* the initialized state compress was given and the two lane states.
C26_LanesEvolveApart == [][compress_step_keeps_lanes_apart]_vars

\* a compress of the IV state has combined: the lanes ended in different
\* states, both different from the initialized state
C26_Witness ==
    /\ pc = "g_update"
    /\ consumed = 1
    /\ last_call # <<>>
    /\ last_call.routine = "assign_combine_ilr"
    /\ last_call.state = init_vector
    /\ last_call.left_state # last_call.right_state
    /\ last_call.left_state # init_vector
    /\ last_call.right_state # init_vector
    /\ hasher = last_call.result.state

\* C27: for the operands (x, y, z) of the f2 routine (b, c, d for assign_f2
\* and d, b, c for assign_f4) the odd halves of P are x & y, those of Q are
\* !x & z, the two have no set bit in common, the halves returned are their
\* bitwise or, the carry is 0, the placed cells satisfy the f2f4 gate, and
\* the gate rejects the same cells with a carry of 1.
C27_F2CarryIsZero ==
    pc \in {"gt_f2", "gt_f4"} =>
        LET x  == IF pc = "gt_f2" THEN gt_words.b ELSE gt_words.d
            y  == IF pc = "gt_f2" THEN gt_words.c ELSE gt_words.b
            z  == IF pc = "gt_f2" THEN gt_words.d ELSE gt_words.c
            sx == IF pc = "gt_f2" THEN gt_loaded.b.spread_halves ELSE gt_loaded.d.spread_halves
            sy == IF pc = "gt_f2" THEN gt_loaded.c.spread_halves ELSE gt_loaded.b.spread_halves
            sz == IF pc = "gt_f2" THEN gt_loaded.d.spread_halves ELSE gt_loaded.c.spread_halves
            p  == gt_result.lookup[2].dense \o gt_result.lookup[4].dense
            q  == gt_result.lookup[6].dense \o gt_result.lookup[8].dense
        IN  /\ \A i \in 1..32 : p[i] = b_and(x[i], y[i])
            /\ \A i \in 1..32 : q[i] = b_and(b_not(x[i]), z[i])
            /\ \A i \in 1..32 : p[i] + q[i] <= 1
            /\ recombine(gt_result.out) = bit_or(p, q)
            /\ F_add(F_of_bits(p), F_of_bits(q)) = F_of_bits(recombine(gt_result.out))
            /\ gt_result.carry = 0
            /\ f2_gate_on(gt_result, sx, sy, sz, gt_result.carry)
            /\ ~f2_gate_on(gt_result, sx, sy, sz, 1)

\* f2 on x = 0x67452301, y = all ones, z = all ones: P is x, Q is !x, every
\* bit of the sum is set and the carry is 0
C27_Witness ==
    /\ pc = "gt_f2"
    /\ gt_words.b = u32_of_halves(8961, 26437)
    /\ gt_words.c = u32_of_halves(65535, 65535)
    /\ gt_words.d = u32_of_halves(65535, 65535)
    /\ recombine(gt_result.out) = u32_of_halves(65535, 65535)
    /\ gt_result.carry = 0

\* the negation placed for the spread half s of the dense half v is the
\* spread form of the complement of v: the mask of the even bits minus s,
\* no odd bit set, negated again it is s, and with s it satisfies the
\* negation check of the gates
negation_of_spread_half(n, s, v) ==
    /\ s = spread_bits(v)
    /\ n = negate_spread(s)
    /\ n = spread_bits(array([i \in 1..16 |-> 1 - v[i]]))
    /\ lebs2ip(n) = MASK_EVEN_32 - lebs2ip(s)
    /\ \A i \in 1..16 : n[2 * i] = 0
    /\ negate_spread(n) = s
    /\ F_add(F_of_bits(n), F_of_bits(s)) = F_evens

state_slots_filled(state) ==
    /\ state # State_empty_state
    /\ state.a # <<>> /\ state.a[1].variant = "A"
    /\ state.b # <<>> /\ state.b[1].variant = "B"
    /\ state.c # <<>> /\ state.c[1].variant = "C"
    /\ state.d # <<>> /\ state.d[1].variant = "D"
    /\ state.e # <<>> /\ state.e[1].variant = "E"
    /\ match_state(state) = << state.a[1].word, state.b[1].word, state.c[1].word,
                               state.d[1].word, state.e[1].word >>

\* C29: the state init_with_iv returned, every state a round or the
\* combination returned and every state compress returned has its five slots
\* filled with the variants A, B, C, D, E in the slots a, b, c, d, e; so had
\* every state handed to match_state by assign_round, assign_combine_ilr and
\* assign_digest.
C29_StateSlotsFilled ==
    /\ hasher # <<>> => state_slots_filled(hasher)
    /\ locals # <<>> =>
            /\ state_slots_filled(locals.initialized_state)
            /\ state_slots_filled(locals.left_state)
            /\ state_slots_filled(locals.right_state)
    /\ (last_call # <<>> /\ last_call.routine = "assign_round") =>
            /\ state_slots_filled(last_call.state)
            /\ state_slots_filled(last_call.result.state)
    /\ (last_call # <<>> /\ last_call.routine = "assign_combine_ilr") =>
            /\ state_slots_filled(last_call.state)
            /\ state_slots_filled(last_call.left_state)
            /\ state_slots_filled(last_call.right_state)
            /\ state_slots_filled(last_call.result.state)
    /\ (last_call # <<>> /\ last_call.routine = "assign_digest") =>
            state_slots_filled(last_call.state)
    /\ \A i \in 1..Len(compressed) :
            /\ state_slots_filled(compressed[i].initialized_state)
            /\ state_slots_filled(compressed[i].returned)

\* two compress calls returned, the second started from the state the
\* first returned, and assign_digest matched the state of the second
C29_Witness ==
    /\ pc = "g_done"
    /\ Len(compressed) = 2
    /\ compressed[1].initialized_state = init_vector
    /\ compressed[2].initialized_state = compressed[1].returned
    /\ hasher = compressed[2].returned
    /\ hasher # init_vector
    /\ last_call.routine = "assign_digest"
    /\ last_call.state = hasher
    /\ state_slots_filled(hasher)

\* C30: RIPEMD160::digest on the empty list of blocks: update starts no
\* compress call and leaves the state new placed, the state of the IV; no
\* compress error can occur; finalize returns the five words of
\* INITIAL_VALUES.  The reference hash of the empty message compresses the
\* one block of its padding and returns other bytes.
C30_NoBlocksDigestIsIv ==
    data = <<>> =>
        /\ pc \in {"g_new", "g_update", "g_done", "g_failed"}
        /\ compressed = <<>>
        /\ consumed = 0
        /\ locals = <<>>
        /\ pc \in {"g_update", "g_done"} => hasher = init_vector /\ failure = <<>>
        /\ pc = "g_failed" => last_call.routine \in {"init_vector", "digest"}
        /\ pc = "g_done" =>
                /\ last_call.routine = "assign_digest"
                /\ last_call.state = init_vector
                /\ digest = INITIAL_VALUES
                /\ Len(pad_message_bytes(<<>>)) = 1
                /\ hash(<<>>) = INPUTS_OUTPUTS[1].output
                /\ hash(<<>>) # State_to_bytes(State_from(digest))

\* the digest of no blocks has been returned: its first word is 0x67452301
C30_Witness ==
    /\ pc = "g_done"
    /\ data = <<>>
    /\ failure = <<>>
    /\ hasher = init_vector
    /\ Len(digest) = 5
    /\ digest[1] = u32_of_halves(8961, 26437)
    /\ digest[5] = u32_of_halves(57840, 50130)

=============================================================================
